---- MODULE Spec2Model ----
(***************************************************************************)
(* A model of the Shopify link checker: the job orchestrator               *)
(* (src/job_manager.py), the checkpoint / resume token (src/models.py) and *)
(* the catalog client's retrying request (src/shopify_client.py).          *)
(*                                                                         *)
(* Python values are represented as follows.                               *)
(*   None cursor (page_info)      0; a cursor is the offset of the next    *)
(*                                page in the listing (always >= 1)        *)
(*   collection_ids None or []    <<>>  (the code tests them by truth      *)
(*                                value only, so the two are one input)    *)
(*   job.checkpoint None          NoCheckpoint                             *)
(*   job.error None               "none"                                   *)
(*   sha256 of the scope JSON     the canonical scope tuple itself (the    *)
(*                                hash is taken to be collision free)      *)
(* Time stamps (started_at, finished_at, checkpoint.timestamp) and the     *)
(* presentation fields of a product (title, handle, image) are copied      *)
(* through by the code and decide nothing; they are left out.              *)
(***************************************************************************)
EXTENDS Integers, Sequences, FiniteSets, TLC

VARIABLES
    jobs,        \* JobManager.jobs: job id (1, 2, ...) -> Job
    runs,        \* the run_job generators started so far, each with its locals
    catStatus,   \* the remote catalog: product id -> visibility status
    mutations,   \* every update_product_status call that reached the catalog
    manual,      \* the update_product_action calls made, with what each returned
    req,         \* one ShopifyClient._request call and what it has met
    lc,          \* one LinkChecker: its settings, semaphore and check_urls call
    fn           \* one call of a function of the program: its arguments and result

vars == <<jobs, runs, catStatus, mutations, manual, req, lc, fn>>

jobVars == <<jobs, runs, catStatus, mutations, manual>>

-----------------------------------------------------------------------------
(* Bounds of the model *)

MaxRuns == 2          \* run_job invocations
MaxManual == 1        \* update_product_action calls
MaxBatchSize == 2     \* largest config.batch_size drawn (the code allows 1..250)
MaxCalls == 2         \* client calls followed by the request model
MaxUrls == 3          \* URLs given to one check_urls call
MaxConcurrency == 2   \* largest concurrency a checker is built with
MaxRedirects == 2     \* largest max_redirects a checker is built with
MaxIds == 3           \* longest ID list given to get_products_by_ids
MaxLimit == 2         \* largest limit and chunk size of a hydration call
MaxText == 6          \* longest text given to extract_urls, in characters

(* Program constants *)

max_retries == 5          \* ShopifyClient.__init__ default
PageLimitMax == 250       \* get_products / get_collects: min(limit, 250)
HydrateChunk == 250       \* _fetch_products_by_collections: chunk_list(ids, 250)
ByIdsLimit == 250         \* get_products_by_ids default limit
CheckpointEvery == 100    \* _process_product: processed % 100 == 0
DefaultBucket == 40       \* parse_rate_limit_header fallback (0, 40)
DefaultConcurrency == 20  \* LinkChecker.__init__ default
DefaultMaxRedirects == 5  \* LinkChecker.__init__ default
DefaultFollow == TRUE     \* LinkChecker.__init__ default

-----------------------------------------------------------------------------
(* Generic helpers *)

\* no function call made
NoCall == [op |-> "none"]

Min(a, b) == IF a < b THEN a ELSE b

Range(s) == {s[i] : i \in DOMAIN s}

\* items[i : i + n] for a 0-based Python slice start i
Slice(items, i, n) == SubSeq(items, i + 1, Min(i + n, Len(items)))

RECURSIVE SeqFilterIn(_, _)
\* [x for x in s if x in keep]
SeqFilterIn(s, keep) ==
    IF s = <<>> THEN <<>>
    ELSE IF Head(s) \in keep
         THEN <<Head(s)>> \o SeqFilterIn(Tail(s), keep)
         ELSE SeqFilterIn(Tail(s), keep)

RECURSIVE SetToSortedSeq(_)
\* the elements of a finite set of integers in ascending order
SetToSortedSeq(S) ==
    IF S = {} THEN <<>>
    ELSE LET m == CHOOSE x \in S : \A y \in S : x <= y
         IN <<m>> \o SetToSortedSeq(S \ {m})

\* sorted(collection_ids)
sorted(s) == SetToSortedSeq(Range(s))

RECURSIVE Perms(_)
\* all orders in which the elements of a finite set can be listed
Perms(S) ==
    IF S = {} THEN {<<>>}
    ELSE UNION {{<<x>> \o p : p \in Perms(S \ {x})} : x \in S}

RECURSIVE chunk_from(_, _, _)
chunk_from(items, chunk_size, i) ==
    IF i >= Len(items) THEN <<>>
    ELSE <<Slice(items, i, chunk_size)>> \o chunk_from(items, chunk_size, i + chunk_size)

\* variant of chunk_list: every chunk one item longer than asked
chunk_list_one_longer(items, chunk_size) == chunk_from(items, chunk_size + 1, 0)

\* utils.chunk_list
chunk_list(items, chunk_size) == chunk_from(items, chunk_size, 0)

RECURSIVE Flatten(_)
\* list.extend over a list of lists: the lists put end to end
Flatten(lists) == IF lists = <<>> THEN <<>> ELSE Head(lists) \o Flatten(Tail(lists))

-----------------------------------------------------------------------------
(* The remote world: the catalog listing, collection membership, and what  *)
(* each product's metadata field holds.  Pages are cut out of a listing by *)
(* offset; product 1 is listed twice, so that it is returned on two pages. *)

CatalogList == <<1, 2, 1, 3>>

Products == Range(CatalogList)

CatalogStatus0 == (1 :> "active" @@ 2 :> "draft" @@ 3 :> "active")

CollectsList == (10 :> <<1, 2>> @@ 20 :> <<2, 3>>)

\* the links in a product's metadata text, when the field has one
ProductUrls == (1 :> {"u1", "u2"} @@ 2 :> {"u1"} @@ 3 :> {"u3"})

\* outcomes of one read of a product's metadata field
MetaOutcomes == {"error", "absent", "empty", "no_links", "links"}

\* link statuses a check of each URL can come back with (the verifier is modelled apart)
LinkOutcomes ==
    ("u1" :> {"ok", "broken_not_found"} @@ "u2" :> {"ok", "broken_timeout"}
        @@ "u3" :> {"redirected_ok", "broken_server_error"})

\* extract_urls returns list(set(...)): the links in an order of Python's choosing
UrlOrders(p) == Perms(ProductUrls[p])

\* the results check_urls can return for a list of URLs, one per URL in order
CheckOutcomes(urls) ==
    {checks \in [1..Len(urls) -> UNION {LinkOutcomes[u] : u \in Range(urls)}] :
        \A i \in 1..Len(urls) : checks[i] \in LinkOutcomes[urls[i]]}

BrokenStatuses ==
    {"broken_not_found", "broken_client_error", "broken_server_error", "broken_timeout",
     "broken_dns", "broken_ssl", "broken_too_many_redirects", "broken_other"}

-----------------------------------------------------------------------------
(* models.py: JobStatus, JobStats, Checkpoint, the resume token *)

JobStatus == {"pending", "running", "completed", "failed", "cancelled"}

JobStats0 ==
    [total_products |-> 0, processed |-> 0, drafted_count |-> 0, archived_count |-> 0,
     ignored_count |-> 0, broken_url_count |-> 0, ok_url_count |-> 0,
     redirected_ok_count |-> 0, no_url_count |-> 0, errors_count |-> 0,
     batch_index |-> 0, total_batches |-> 0]

NoCheckpoint == [kind |-> "none"]

\* variant of compute_scope_hash: the collection ids are hashed in the order given
compute_scope_hash_unsorted(shop, status, namespace, key, collection_ids) ==
    [shop |-> shop, status |-> status, namespace |-> namespace, key |-> key,
     collection_ids |-> collection_ids]

\* variant of compute_scope_hash: the namespace is left out of the hashed data
compute_scope_hash_without_namespace(shop, status, namespace, key, collection_ids) ==
    [shop |-> shop, status |-> status, namespace |-> "", key |-> key,
     collection_ids |-> IF collection_ids # <<>> THEN sorted(collection_ids) ELSE <<>>]

\* Checkpoint.compute_scope_hash: sorted collection ids, or None when there are none
compute_scope_hash(shop, status, namespace, key, collection_ids) ==
    [shop |-> shop, status |-> status, namespace |-> namespace, key |-> key,
     collection_ids |-> IF collection_ids # <<>> THEN sorted(collection_ids) ELSE <<>>]

\* JobConfig.get_scope_hash
get_scope_hash(config) ==
    compute_scope_hash(config.shop, config.status, config.namespace, config.key,
                       config.collection_ids)

\* Checkpoint.collects_state default: the empty dict
EmptyCollects == [c \in {} |-> 0]

\* Checkpoint(scope_hash=..., seen_ids=[], processed_count=0) with the field defaults
FreshCheckpoint(scope_hash) ==
    [scope_hash |-> scope_hash, page_info |-> 0, collects_state |-> EmptyCollects,
     seen_ids |-> <<>>, processed_count |-> 0]

\* CollectsState(collection_id=...)
NewCollectsState(collection_id) ==
    [collection_id |-> collection_id, page_info |-> 0, product_ids |-> <<>>]

\* a JSON object key: the decimal text of an integer
IntToKey(n) == <<"key", n>>

KeyToInt(k) == k[2]

\* variant of model_dump_json: collects_state is dumped as the empty object
model_dump_json_without_collects(ck) ==
    [scope_hash |-> ck.scope_hash, page_info |-> ck.page_info,
     collects_state |-> EmptyCollects,
     seen_ids |-> ck.seen_ids, processed_count |-> ck.processed_count]

\* Checkpoint.model_dump_json: the integer keys of collects_state become strings
model_dump_json(ck) ==
    [scope_hash |-> ck.scope_hash, page_info |-> ck.page_info,
     collects_state |->
        [k \in {IntToKey(c) : c \in DOMAIN ck.collects_state} |->
            ck.collects_state[KeyToInt(k)]],
     seen_ids |-> ck.seen_ids, processed_count |-> ck.processed_count]

\* Checkpoint.model_validate_json: the keys are parsed back to integers
model_validate_json(doc) ==
    [scope_hash |-> doc.scope_hash, page_info |-> doc.page_info,
     collects_state |->
        [c \in {KeyToInt(k) : k \in DOMAIN doc.collects_state} |->
            doc.collects_state[IntToKey(c)]],
     seen_ids |-> doc.seen_ids, processed_count |-> doc.processed_count]

NoToken == [kind |-> "none"]

\* a string that is no base64 of a checkpoint document
GarbageToken == [kind |-> "garbage"]

DecodeError == [kind |-> "decode_error"]

\* variant of get_resume_token: no token is handed out
no_resume_token(job) == NoToken

\* Job.get_resume_token
get_resume_token(job) ==
    IF job.checkpoint = NoCheckpoint THEN NoToken
    ELSE [kind |-> "b64", text |-> model_dump_json(job.checkpoint)]

\* Job.decode_resume_token: raises on anything that is no encoded checkpoint
decode_resume_token(token) ==
    IF token.kind = "b64" THEN model_validate_json(token.text) ELSE DecodeError

-----------------------------------------------------------------------------
(* shopify_client.py: what the catalog answers to a successful call.  `cat` *)
(* is the catalog's current product status map.                            *)

ProductUpdatedAt == (1 :> 1 @@ 2 :> 2 @@ 3 :> 3)

ProductDict(p, cat) == [id |-> p, status |-> cat[p], updated_at |-> ProductUpdatedAt[p]]

\* the cursor after the page that starts at offset page_info and holds n slots
NextCursor(list, page_info, n) == IF page_info + n < Len(list) THEN page_info + n ELSE 0

\* ShopifyClient.get_products: one page of the status listing and the next cursor
get_products(status, limit, page_info, cat) ==
    LET n == Min(limit, PageLimitMax)
        match == {p \in Products : status = "any" \/ cat[p] = status}
        ids == SeqFilterIn(Slice(CatalogList, page_info, n), match)
    IN  [products |-> [i \in 1..Len(ids) |-> ProductDict(ids[i], cat)],
         next |-> NextCursor(CatalogList, page_info, n)]

\* ShopifyClient.get_collects: one page of a collection's membership
get_collects(collection_id, limit, page_info) ==
    LET n == Min(limit, PageLimitMax)
        list == IF collection_id \in DOMAIN CollectsList THEN CollectsList[collection_id]
                ELSE <<>>
    IN  [product_ids |-> Slice(list, page_info, n), next |-> NextCursor(list, page_info, n)]

\* variant of request_ids: every ID given is requested
request_ids_all(product_ids, limit) == product_ids

\* get_products_by_ids, "Take only first 'limit' IDs": the ids parameter of the
\* request
request_ids(product_ids, limit) == Slice(product_ids, 0, limit)

\* ShopifyClient.get_products_by_ids: no request for an empty list; else one
\* request, answered with the products the catalog holds among the IDs asked
get_products_by_ids(product_ids, limit, cat) ==
    IF product_ids = <<>> THEN <<>>
    ELSE LET ids == SeqFilterIn(request_ids(product_ids, limit), Products)
         IN  [i \in 1..Len(ids) |-> ProductDict(ids[i], cat)]

-----------------------------------------------------------------------------
(* job_manager.py: _get_metafield_value and _process_product *)

\* _get_metafield_value: the value read, None (falsy) on a failed read or a missing field.
\* `urls` is what extract_urls finds in the text, in the order it returns them.
get_metafield_value(meta, urls) ==
    IF meta = "error" THEN [truthy |-> FALSE, urls |-> <<>>]
    ELSE IF meta = "absent" THEN [truthy |-> FALSE, urls |-> <<>>]
    ELSE IF meta = "empty" THEN [truthy |-> FALSE, urls |-> <<>>]
    ELSE IF meta = "no_links" THEN [truthy |-> TRUE, urls |-> <<>>]
    ELSE [truthy |-> TRUE, urls |-> urls]

\* variant of already_seen: the seen check left out
never_seen(product_id, seen_ids) == FALSE

\* _process_product, "Skip if already seen"
already_seen(product_id, seen_ids) == product_id \in seen_ids

is_broken(link_status) == link_status \in BrokenStatuses

NoUrlRow(product) ==
    [product_id |-> product.id, product_status |-> product.status, original_url |-> "",
     link_status |-> "no_url", is_broken |-> FALSE, action |-> "no_urls"]

UrlRow(product, url, link_status, action) ==
    [product_id |-> product.id, product_status |-> product.status, original_url |-> url,
     link_status |-> link_status, is_broken |-> is_broken(link_status), action |-> action]

\* variant of result_rows: only the first URL gets a row
result_rows_first_only(product, urls, checks, action) ==
    <<UrlRow(product, urls[1], checks[1], action)>>

\* _process_product, "Create results for each URL"
result_rows(product, urls, checks, action) ==
    [i \in 1..Len(urls) |-> UrlRow(product, urls[i], checks[i], action)]

\* variant of broken_disposition: auto_action is not looked at
broken_disposition_always_applies(product_status, config) ==
    IF product_status = "draft" THEN [action |-> "already_draft", mutate |-> "none"]
    ELSE IF product_status = "archived"
    THEN [action |-> "already_archived", mutate |-> "none"]
    ELSE IF config.dry_run
    THEN [action |-> IF config.broken_action = "archive" THEN "would_archive"
                     ELSE "would_draft",
          mutate |-> "none"]
    ELSE IF config.broken_action = "archive"
    THEN [action |-> "archived", mutate |-> "archived"]
    ELSE IF config.broken_action = "draft"
    THEN [action |-> "drafted", mutate |-> "draft"]
    ELSE [action |-> "ignored", mutate |-> "none"]

\* variant of broken_disposition: the product's own status is not looked at
broken_disposition_any_status(product_status, config) ==
    IF config.dry_run
    THEN [action |-> IF config.broken_action = "archive" THEN "would_archive"
                     ELSE "would_draft",
          mutate |-> "none"]
    ELSE IF config.auto_action
    THEN IF config.broken_action = "archive"
         THEN [action |-> "archived", mutate |-> "archived"]
         ELSE IF config.broken_action = "draft"
         THEN [action |-> "drafted", mutate |-> "draft"]
         ELSE [action |-> "ignored", mutate |-> "none"]
    ELSE [action |-> "no_action", mutate |-> "none"]

\* _process_product, "Determine action" for a product with a broken link:
\* the action recorded and the status the catalog is asked to set ("none": no call)
broken_disposition(product_status, config) ==
    IF product_status = "draft" THEN [action |-> "already_draft", mutate |-> "none"]
    ELSE IF product_status = "archived"
    THEN [action |-> "already_archived", mutate |-> "none"]
    ELSE IF config.dry_run
    THEN [action |-> IF config.broken_action = "archive" THEN "would_archive"
                     ELSE "would_draft",
          mutate |-> "none"]
    ELSE IF config.auto_action
    THEN IF config.broken_action = "archive"
         THEN [action |-> "archived", mutate |-> "archived"]
         ELSE IF config.broken_action = "draft"
         THEN [action |-> "drafted", mutate |-> "draft"]
         ELSE [action |-> "ignored", mutate |-> "none"]
    ELSE [action |-> "no_action", mutate |-> "none"]

\* variant of apply_disposition: a catalog call that raised is counted as applied
apply_disposition_uncaught(stats, disp, mut_ok) ==
    IF disp.action = "archived"
    THEN [action |-> "archived", stats |-> [stats EXCEPT !.archived_count = @ + 1]]
    ELSE IF disp.action = "drafted"
    THEN [action |-> "drafted", stats |-> [stats EXCEPT !.drafted_count = @ + 1]]
    ELSE IF disp.action = "ignored"
    THEN [action |-> "ignored", stats |-> [stats EXCEPT !.ignored_count = @ + 1]]
    ELSE [action |-> disp.action, stats |-> stats]

\* _process_product, the auto-apply try/except: the action recorded and the counters
\* after the catalog call returned (mut_ok) or raised
apply_disposition(stats, disp, mut_ok) ==
    IF disp.mutate # "none" /\ ~mut_ok
    THEN [action |-> "error", stats |-> [stats EXCEPT !.errors_count = @ + 1]]
    ELSE IF disp.action = "archived"
    THEN [action |-> "archived", stats |-> [stats EXCEPT !.archived_count = @ + 1]]
    ELSE IF disp.action = "drafted"
    THEN [action |-> "drafted", stats |-> [stats EXCEPT !.drafted_count = @ + 1]]
    ELSE IF disp.action = "ignored"
    THEN [action |-> "ignored", stats |-> [stats EXCEPT !.ignored_count = @ + 1]]
    ELSE [action |-> disp.action, stats |-> stats]

CountOf(checks, link_status) == Cardinality({i \in DOMAIN checks : checks[i] = link_status})

\* _process_product, "Update checkpoint periodically"
periodic_checkpoint(job) ==
    IF job.stats.processed % CheckpointEvery = 0
    THEN [job EXCEPT !.checkpoint.processed_count = job.stats.processed]
    ELSE job

\* _process_product: the job and the local seen set after the call, the rows it
\* returns, and the catalog calls it made (metadata reads, mutations).
\* meta, urls, checks, mut_ok are what the network answered.
process_product(product, config, job, seen_ids, meta, urls, checks, mut_ok) ==
    IF already_seen(product.id, seen_ids)
    THEN [job |-> job, seen_ids |-> seen_ids, results |-> <<>>, meta_reads |-> <<>>,
          checked |-> <<>>, mutation |-> <<>>]
    ELSE
    LET job1 == [job EXCEPT !.checkpoint.seen_ids = Append(@, product.id)]
        seen1 == seen_ids \cup {product.id}
        value == get_metafield_value(meta, urls)
    IN  IF ~value.truthy \/ value.urls = <<>>
        THEN [job |-> [job1 EXCEPT !.results = Append(@, NoUrlRow(product)),
                                   !.stats.processed = @ + 1,
                                   !.stats.no_url_count = @ + 1],
              seen_ids |-> seen1, results |-> <<NoUrlRow(product)>>,
              meta_reads |-> <<product.id>>, checked |-> <<>>, mutation |-> <<>>]
        ELSE
        LET has_broken_links == \E i \in DOMAIN checks : is_broken(checks[i])
            disp == broken_disposition(product.status, config)
            applied ==
                IF has_broken_links
                THEN apply_disposition(
                        [job1.stats EXCEPT !.broken_url_count = @ + 1], disp, mut_ok)
                ELSE [action |-> "no_action",
                      stats |-> [job1.stats EXCEPT
                                    !.ok_url_count = @ + CountOf(checks, "ok"),
                                    !.redirected_ok_count =
                                        @ + CountOf(checks, "redirected_ok")]]
            rows == result_rows(product, value.urls, checks, applied.action)
            job2 == [job1 EXCEPT !.results = @ \o rows,
                                 !.stats = [applied.stats EXCEPT !.processed = @ + 1]]
        IN  [job |-> periodic_checkpoint(job2), seen_ids |-> seen1, results |-> rows,
             meta_reads |-> <<product.id>>, checked |-> value.urls,
             mutation |->
                IF has_broken_links /\ disp.mutate # "none"
                THEN <<[product_id |-> product.id, status |-> disp.mutate, ok |-> mut_ok]>>
                ELSE <<>>]

-----------------------------------------------------------------------------
(* job_manager.py: create_job *)

\* variant of restore_checkpoint: the scope hash of the token is not compared
restore_unvalidated(config) ==
    IF config.resume_token = NoToken THEN NoCheckpoint
    ELSE LET checkpoint == decode_resume_token(config.resume_token)
         IN  IF checkpoint = DecodeError THEN NoCheckpoint ELSE checkpoint

\* create_job, "If resuming, decode checkpoint": the checkpoint the new job starts
\* with.  A token that does not decode, or of another scope, leaves it None.
restore_checkpoint(config) ==
    IF config.resume_token = NoToken THEN NoCheckpoint
    ELSE LET checkpoint == decode_resume_token(config.resume_token)
         IN  IF checkpoint = DecodeError THEN NoCheckpoint
             ELSE IF checkpoint.scope_hash = get_scope_hash(config) THEN checkpoint
             ELSE NoCheckpoint

\* Job(id=job_id, config=config) with the field defaults
NewJob(config) ==
    [config |-> config, status |-> "pending", stats |-> JobStats0, results |-> <<>>,
     checkpoint |-> NoCheckpoint, error |-> "none"]

\* the resume tokens handed out so far by final events
EmittedTokens ==
    UNION {{runs[r].events[i].resume_token :
                i \in {k \in DOMAIN runs[r].events : runs[r].events[k].type = "final"}} :
           r \in DOMAIN runs}

\* create_job: the job is registered under the next id
CreateJob(config) ==
    /\ jobs' = Append(jobs, [NewJob(config) EXCEPT !.checkpoint = restore_checkpoint(config)])
    /\ UNCHANGED <<runs, catStatus, mutations, manual, req, lc, fn>>

-----------------------------------------------------------------------------
(* job_manager.py: run_job.  A run record holds the generator's locals and   *)
(* position (pc), the events it has yielded, and a record of what it did:   *)
(*   first      the job was PENDING when this run started                   *)
(*   ck0        the checkpoint the run started from, seen0 its seen ids     *)
(*   fetched    product ids the catalog returned to this run                *)
(*   processed  products that passed the seen check, in order               *)
(*   read_failed  a catalog read of this run failed permanently             *)
(*   raised     the run ended by re-raising, ck_fail the checkpoint then    *)
(*   last       of the last product processed: was the metadata value       *)
(*              truthy, and the URL list extract_urls made of it            *)
(* pc: "fetch" / "collects" / "hydrate" wait for a catalog read, "process"  *)
(* is inside the batch loop, "yielded" and "final" wait for the consumer,   *)
(* "done" is exhausted, "closed" was dropped by the consumer.               *)

\* the `last` of a run that has processed no product yet
NoneRead == [value |-> FALSE, urls |-> <<>>]

Active(r) == runs[r].pc \notin {"done", "closed"}

\* _fetch_products_by_collections, "Get or create collects state"
enter_collection(checkpoint, collection_id) ==
    IF collection_id \notin DOMAIN checkpoint.collects_state
    THEN [checkpoint EXCEPT
            !.collects_state = @ @@ (collection_id :> NewCollectsState(collection_id))]
    ELSE checkpoint

\* the final yield of the finally block
final_yield(job, run) ==
    [job |-> job,
     run |-> [run EXCEPT !.pc = "final",
                         !.events = Append(@, [type |-> "final", status |-> job.status,
                                               stats |-> job.stats,
                                               resume_token |-> get_resume_token(job)])]]

\* variant of complete: the generator ends without the final yield
complete_without_final(job, run) ==
    [job |-> [job EXCEPT !.status = "completed"], run |-> [run EXCEPT !.pc = "done"]]

\* "Job completed successfully", then the finally block
complete(job, run) == final_yield([job EXCEPT !.status = "completed"], run)

\* variant of fail: the finally block never gets to its yield
fail_and_hang(job, run, reason) ==
    [job |-> [job EXCEPT !.status = "failed", !.error = reason],
     run |-> [run EXCEPT !.pc = "closing", !.raised = TRUE]]

\* the except block of run_job, then the finally block
fail(job, run, reason) ==
    final_yield([job EXCEPT !.status = "failed", !.error = reason],
                [run EXCEPT !.raised = TRUE, !.read_failed = TRUE,
                            !.ck_fail = job.checkpoint])

\* run_job from "Apply date filter" to the first product of the first batch
start_batches(job, run, fetched_products) ==
    LET config == job.config
        products_to_check ==
            IF config.updated_after # 0
            THEN SeqFilterIn(fetched_products,
                    {p \in Range(fetched_products) : p.updated_at > config.updated_after})
            ELSE fetched_products
        n == Len(products_to_check)
        job1 == [job EXCEPT !.stats.total_products = n,
                            !.stats.total_batches =
                                (n + config.batch_size - 1) \div config.batch_size]
        run1 == [run EXCEPT !.products = products_to_check, !.pos = 1,
                            !.batch_results = <<>>]
    IN  IF n = 0 THEN complete(job1, run1)
        ELSE [job |-> [job1 EXCEPT !.stats.batch_index = 1],
              run |-> [run1 EXCEPT !.pc = "process"]]

\* run_job up to its first catalog read; nothing in it looks at whether
\* another run_job of the job is under way
StartRun(j) ==
    /\ j \in DOMAIN jobs
    /\ Len(runs) < MaxRuns
    /\ LET job == jobs[j]
           config == job.config
           by_collections == config.collection_ids # <<>>
           ck == IF job.checkpoint = NoCheckpoint
                 THEN FreshCheckpoint(get_scope_hash(config))
                 ELSE job.checkpoint
           ck1 == IF by_collections THEN enter_collection(ck, config.collection_ids[1])
                  ELSE ck
           run == [job |-> j,
                   pc |-> IF by_collections THEN "collects" ELSE "fetch",
                   seen_ids |-> Range(ck.seen_ids),
                   products |-> <<>>,
                   page_info |-> IF by_collections
                                 THEN ck1.collects_state[config.collection_ids[1]].page_info
                                 ELSE ck.page_info,
                   cidx |-> 1, all_product_ids |-> {}, chunks |-> <<>>, chunk |-> 1,
                   pos |-> 1, batch_results |-> <<>>, events |-> <<>>,
                   first |-> job.status = "pending", ck0 |-> ck,
                   seen0 |-> Range(ck.seen_ids), fetched |-> {}, processed |-> <<>>,
                   read_failed |-> FALSE,
                   raised |-> FALSE, ck_fail |-> NoCheckpoint,
                   last |-> NoneRead]
       IN  /\ jobs' = [jobs EXCEPT ![j] = [job EXCEPT !.status = "running",
                                                        !.checkpoint = ck1]]
           /\ runs' = Append(runs, run)
    /\ UNCHANGED <<catStatus, mutations, manual, req, lc, fn>>

\* run_job called when no earlier call is still running
RunStart(j) ==
    /\ \A r \in DOMAIN runs : ~Active(r)
    /\ StartRun(j)

SetJobRun(j, r, res) ==
    /\ jobs' = [jobs EXCEPT ![j] = res.job]
    /\ runs' = [runs EXCEPT ![r] = res.run]

\* _fetch_all_products: one get_products call returns (ok) or raises
FetchPage(r, ok) ==
    /\ r \in DOMAIN runs
    /\ runs[r].pc = "fetch"
    /\ LET run == runs[r]
           j == run.job
           job == jobs[j]
           config == job.config
           page == get_products(config.status, config.batch_size, run.page_info, catStatus)
           new_products ==
               SeqFilterIn(page.products,
                           {p \in Range(page.products) : p.id \notin run.seen_ids})
           job1 == [job EXCEPT !.checkpoint.page_info = page.next]
           run1 == [run EXCEPT !.products = @ \o new_products,
                               !.fetched = @ \cup {p.id : p \in Range(page.products)},
                               !.page_info = page.next]
       IN  IF ~ok THEN SetJobRun(j, r, fail(job, run, "get_products failed"))
           ELSE IF page.next = 0
           THEN SetJobRun(j, r, start_batches(job1, run1, run1.products))
           ELSE SetJobRun(j, r, [job |-> job1, run |-> run1])
    /\ UNCHANGED <<catStatus, mutations, manual, req, lc, fn>>

\* _fetch_products_by_collections, "Remove already-seen IDs"
unseen_ids(all_product_ids, seen_ids) == SetToSortedSeq(all_product_ids \ seen_ids)

\* _fetch_products_by_collections, "Apply status filter"
apply_status_filter(batch, status) ==
    IF status # "any"
    THEN SeqFilterIn(batch, {p \in Range(batch) : p.status = status})
    ELSE batch

\* _fetch_products_by_collections, after the last collection's last page:
\* "Remove already-seen IDs" and cut the rest into chunks
after_collects(job, run) ==
    LET product_ids_to_fetch == unseen_ids(run.all_product_ids, run.seen_ids)
        chunks == chunk_list(product_ids_to_fetch, HydrateChunk)
        run1 == [run EXCEPT !.chunks = chunks, !.chunk = 1, !.products = <<>>]
    IN  IF chunks = <<>> THEN start_batches(job, run1, <<>>)
        ELSE [job |-> job, run |-> [run1 EXCEPT !.pc = "hydrate"]]

RECURSIVE collect_from(_, _, _)
\* _fetch_products_by_collections, the inner while loop when every get_collects
\* call returns: the product IDs of the pages from page_info to the last
collect_from(collection_id, limit, page_info) ==
    LET page == get_collects(collection_id, limit, page_info)
    IN  Range(page.product_ids)
            \cup (IF page.next = 0 THEN {}
                  ELSE collect_from(collection_id, limit, page.next))

\* _fetch_products_by_collections as one function, every catalog call returning:
\* cursors is the page_info the checkpoint holds for each collection (0 where it
\* holds none), chunk_size and by_ids_limit stand for the 250 of chunk_list and
\* the default limit of get_products_by_ids.  The result is the products, with
\* the IDs discovered and the ids parameter of each get_products_by_ids request
fetch_products_by_collections(collection_ids, cursors, seen_ids, status, page_limit, chunk_size, by_ids_limit, cat) ==
    LET discovered ==
            UNION {collect_from(c, page_limit, cursors[c]) : c \in Range(collection_ids)}
        id_chunks == chunk_list(unseen_ids(discovered, seen_ids), chunk_size)
    IN  [discovered |-> discovered,
         requests |-> [k \in DOMAIN id_chunks |-> request_ids(id_chunks[k], by_ids_limit)],
         products |->
            Flatten([k \in DOMAIN id_chunks |->
                        apply_status_filter(
                            get_products_by_ids(id_chunks[k], by_ids_limit, cat), status)])]

\* _fetch_products_by_collections: one get_collects call returns (ok) or raises
FetchCollects(r, ok) ==
    /\ r \in DOMAIN runs
    /\ runs[r].pc = "collects"
    /\ LET run == runs[r]
           j == run.job
           job == jobs[j]
           config == job.config
           collection_id == config.collection_ids[run.cidx]
           page == get_collects(collection_id, config.batch_size, run.page_info)
           job1 == [job EXCEPT
                      !.checkpoint.collects_state[collection_id].page_info = page.next,
                      !.checkpoint.collects_state[collection_id].product_ids =
                          @ \o page.product_ids]
           run1 == [run EXCEPT !.all_product_ids = @ \cup Range(page.product_ids),
                               !.page_info = page.next]
           more == run.cidx < Len(config.collection_ids)
           next_id == config.collection_ids[run.cidx + 1]
           job2 == [job1 EXCEPT !.checkpoint = enter_collection(@, next_id)]
       IN  IF ~ok THEN SetJobRun(j, r, fail(job, run, "get_collects failed"))
           ELSE IF page.next # 0 THEN SetJobRun(j, r, [job |-> job1, run |-> run1])
           ELSE IF more
           THEN SetJobRun(j, r,
                   [job |-> job2,
                    run |-> [run1 EXCEPT
                               !.cidx = @ + 1,
                               !.page_info =
                                   job2.checkpoint.collects_state[next_id].page_info]])
           ELSE SetJobRun(j, r, after_collects(job1, run1))
    /\ UNCHANGED <<catStatus, mutations, manual, req, lc, fn>>

\* _fetch_products_by_collections: one get_products_by_ids call returns (ok) or raises
Hydrate(r, ok) ==
    /\ r \in DOMAIN runs
    /\ runs[r].pc = "hydrate"
    /\ LET run == runs[r]
           j == run.job
           job == jobs[j]
           config == job.config
           got == get_products_by_ids(run.chunks[run.chunk], ByIdsLimit, catStatus)
           batch == apply_status_filter(got, config.status)
           run1 == [run EXCEPT !.products = @ \o batch,
                               !.fetched = @ \cup {p.id : p \in Range(got)},
                               !.chunk = @ + 1]
       IN  IF ~ok THEN SetJobRun(j, r, fail(job, run, "get_products_by_ids failed"))
           ELSE IF run.chunk < Len(run.chunks)
           THEN SetJobRun(j, r, [job |-> job, run |-> run1])
           ELSE SetJobRun(j, r, start_batches(job, run1, run1.products))
    /\ UNCHANGED <<catStatus, mutations, manual, req, lc, fn>>

\* variant of last_of_batch: only the last product of all ends a batch
last_of_all(pos, batch_size, n) == pos = n

\* the batch loop of run_job over chunk_list(products_to_check, batch_size): the
\* product at position pos of n is the last of its batch, so the yield follows
last_of_batch(pos, batch_size, n) == pos % batch_size = 0 \/ pos = n

\* the batch loop of run_job: one _process_product call, and the progress yield
\* when it was the last product of its batch
ProcessStep(r, meta, urls, checks, mut_ok) ==
    LET run == runs[r]
        j == run.job
        job == jobs[j]
        config == job.config
        product == run.products[run.pos]
        res == process_product(product, config, job, run.seen_ids, meta, urls, checks,
                               mut_ok)
        batch_results == run.batch_results \o res.results
        ends_batch == last_of_batch(run.pos, config.batch_size, Len(run.products))
        run1 == [run EXCEPT
                   !.seen_ids = res.seen_ids,
                   !.pos = @ + 1,
                   !.batch_results = batch_results,
                   !.processed = IF res.meta_reads # <<>> THEN Append(@, product.id) ELSE @,
                   !.read_failed = @ \/ (res.meta_reads # <<>> /\ meta = "error"),
                   !.last = IF res.meta_reads # <<>>
                            THEN [value |-> get_metafield_value(meta, urls).truthy,
                                  urls |-> res.checked]
                            ELSE @]
        run2 == IF ends_batch
                THEN [run1 EXCEPT
                        !.pc = "yielded",
                        !.batch_results = <<>>,
                        !.events = Append(@, [type |-> "progress",
                                              status |-> res.job.status,
                                              stats |-> res.job.stats,
                                              results |-> batch_results])]
                ELSE run1
    IN  /\ SetJobRun(j, r, [job |-> res.job, run |-> run2])
        /\ mutations' = mutations \o
              [i \in 1..Len(res.mutation) |->
                  [product_id |-> res.mutation[i].product_id,
                   status |-> res.mutation[i].status, ok |-> res.mutation[i].ok,
                   job |-> j, run |-> r]]
        /\ catStatus' = IF res.mutation # <<>> /\ res.mutation[1].ok
                        THEN [catStatus EXCEPT ![product.id] = res.mutation[1].status]
                        ELSE catStatus

\* metas, mut_oks: the metadata-read outcomes and the mutation outcomes the
\* specification lets the network produce
ProcessProduct(r, metas, mut_oks) ==
    /\ r \in DOMAIN runs
    /\ runs[r].pc = "process"
    /\ \E meta \in metas :
          IF meta = "links"
          THEN \E urls \in UrlOrders(runs[r].products[runs[r].pos].id) :
               \E checks \in CheckOutcomes(urls) :
               \E mut_ok \in mut_oks :
                  ProcessStep(r, meta, urls, checks, mut_ok)
          ELSE ProcessStep(r, meta, <<>>, <<>>, TRUE)
    /\ UNCHANGED <<manual, req, lc, fn>>

\* the consumer asks the generator for its next event
NextEvent(r) ==
    /\ r \in DOMAIN runs
    /\ runs[r].pc \in {"yielded", "final"}
    /\ LET run == runs[r]
           j == run.job
           job == jobs[j]
       IN  IF run.pc = "final"
           THEN /\ runs' = [runs EXCEPT ![r].pc = "done"]
                /\ UNCHANGED jobs
           ELSE IF run.pos > Len(run.products)
           THEN SetJobRun(j, r, complete(job, run))
           ELSE SetJobRun(j, r,
                   [job |-> [job EXCEPT !.stats.batch_index =
                                ((run.pos - 1) \div job.config.batch_size) + 1],
                    run |-> [run EXCEPT !.pc = "process"]])
    /\ UNCHANGED <<catStatus, mutations, manual, req, lc, fn>>

\* the consumer stops iterating after a progress event: the generator is closed
\* at its yield, and the job is left as it is
CloseRun(r) ==
    /\ r \in DOMAIN runs
    /\ runs[r].pc = "yielded"
    /\ runs' = [runs EXCEPT ![r].pc = "closed"]
    /\ UNCHANGED <<jobs, catStatus, mutations, manual, req, lc, fn>>

-----------------------------------------------------------------------------
(* job_manager.py: update_product_action *)

\* variant of set_row_actions: the action is written to every row of the ledger
set_all_row_actions(results, product_id, action_taken) ==
    [i \in 1..Len(results) |-> [results[i] EXCEPT !.action = action_taken]]

\* "Update results for this product"
set_row_actions(results, product_id, action_taken) ==
    [i \in 1..Len(results) |->
        IF results[i].product_id = product_id
        THEN [results[i] EXCEPT !.action = action_taken]
        ELSE results[i]]

\* variant of rejected_in_dry_run: manual actions are let through
rejected_never(config) == FALSE

\* update_product_action, "if config.dry_run": the request is turned down
rejected_in_dry_run(config) == config.dry_run

\* update_product_action: the job afterwards, what is returned, and the catalog
\* call made.  mut_ok: the catalog call returned (TRUE) or raised.
update_product_action(job, product_id, action, mut_ok) ==
    IF rejected_in_dry_run(job.config)
    THEN [job |-> job, success |-> FALSE, mutation |-> <<>>]
    ELSE IF action = "draft"
    THEN IF mut_ok
         THEN [job |-> [job EXCEPT
                          !.stats.drafted_count = @ + 1,
                          !.results = set_row_actions(@, product_id, "drafted")],
               success |-> TRUE,
               mutation |-> <<[product_id |-> product_id, status |-> "draft", ok |-> TRUE]>>]
         ELSE [job |-> job, success |-> FALSE,
               mutation |-> <<[product_id |-> product_id, status |-> "draft", ok |-> FALSE]>>]
    ELSE IF action = "archive"
    THEN IF mut_ok
         THEN [job |-> [job EXCEPT
                          !.stats.archived_count = @ + 1,
                          !.results = set_row_actions(@, product_id, "archived")],
               success |-> TRUE,
               mutation |->
                  <<[product_id |-> product_id, status |-> "archived", ok |-> TRUE]>>]
         ELSE [job |-> job, success |-> FALSE,
               mutation |->
                  <<[product_id |-> product_id, status |-> "archived", ok |-> FALSE]>>]
    ELSE [job |-> [job EXCEPT
                     !.stats.ignored_count = @ + 1,
                     !.results = set_row_actions(@, product_id, "ignored")],
          success |-> TRUE, mutation |-> <<>>]

ProductActions == {"draft", "archive", "ignore"}

UpdateProductAction(j, product_id, action, mut_ok) ==
    /\ j \in DOMAIN jobs
    /\ Len(manual) < MaxManual
    /\ LET res == update_product_action(jobs[j], product_id, action, mut_ok)
       IN  /\ jobs' = [jobs EXCEPT ![j] = res.job]
           /\ manual' = Append(manual, [job |-> j, product_id |-> product_id,
                                        action |-> action, success |-> res.success,
                                        changed |-> res.job # jobs[j]])
           /\ mutations' = mutations \o
                 [i \in 1..Len(res.mutation) |->
                     [product_id |-> product_id, status |-> res.mutation[i].status,
                      ok |-> res.mutation[i].ok, job |-> j, run |-> 0]]
           /\ catStatus' = IF res.mutation # <<>> /\ res.mutation[1].ok
                           THEN [catStatus EXCEPT ![product_id] = res.mutation[1].status]
                           ELSE catStatus
    /\ UNCHANGED <<runs, req, lc, fn>>

-----------------------------------------------------------------------------
(* shopify_client.py: _request.  The recursion of _request on a retry is    *)
(* followed as a loop: retry_count is the argument of the innermost call.  *)
(* A raised ShopifyAPIError passes through the except clauses of the outer *)
(* frames, which catch only httpx errors.                                  *)
(*   pc         "idle", "waiting" for the HTTP response, "sleeping" before *)
(*              a retry, "returned" or "raised"                            *)
(*   attempts   HTTP requests sent by this call                            *)
(*   responses  what each attempt met: a status code, or 0 for a           *)
(*              transport error (httpx.RequestError)                       *)
(*   throttled  the last response made the client sleep proactively        *)

StatusCodes == {200, 404, 429, 503}

TransportError == 0

\* X-Shopify-Shop-Api-Call-Limit values: missing, below and at the threshold
RateLimitHeaders == {<<>>, <<31, 40>>, <<32, 40>>}

\* utils.parse_rate_limit_header
parse_rate_limit_header(header) ==
    IF header = <<>> THEN <<0, DefaultBucket>> ELSE header

\* utils.should_throttle with threshold 0.8
should_throttle(calls_made, bucket_size) ==
    IF bucket_size = 0 THEN FALSE ELSE calls_made * 10 >= bucket_size * 8

Req0 ==
    [pc |-> "idle", retry_count |-> 0, attempts |-> 0, responses |-> <<>>,
     throttled |-> FALSE, calls |-> 0]

\* variant of can_retry: one retry more
can_retry_once_more(retry_count) == retry_count <= max_retries

\* may a failure met at this retry count be retried
can_retry(retry_count) == retry_count < max_retries

\* variant of on_status: every 4xx is retried like a 429
on_status_retry_4xx(status_code, retry_count) ==
    IF 400 <= status_code /\ status_code < 600
    THEN IF retry_count < max_retries THEN "retry" ELSE "raise"
    ELSE "return"

\* what _request does with a status code: "return", "retry" or "raise"
on_status(status_code, retry_count) ==
    IF status_code = 429
    THEN IF can_retry(retry_count) THEN "retry" ELSE "raise"
    ELSE IF 500 <= status_code /\ status_code < 600
    THEN IF can_retry(retry_count) THEN "retry" ELSE "raise"
    ELSE IF 400 <= status_code /\ status_code < 600
    THEN "raise"            \* raise_for_status -> HTTPStatusError -> ShopifyAPIError
    ELSE "return"

\* what _request does with httpx.RequestError
on_request_error(retry_count) == IF can_retry(retry_count) THEN "retry" ELSE "raise"

PcAfter(outcome) ==
    IF outcome = "retry" THEN "sleeping"
    ELSE IF outcome = "raise" THEN "raised"
    ELSE "returned"

\* a client operation calls _request with retry_count 0 and sends the request
Call ==
    /\ req.pc \in {"idle", "returned", "raised"}
    /\ req.calls < MaxCalls
    /\ req' = [Req0 EXCEPT !.pc = "waiting", !.attempts = 1, !.calls = req.calls + 1]
    /\ UNCHANGED <<jobVars, lc, fn>>

\* the HTTP response arrives
Respond(status_code, header) ==
    /\ req.pc = "waiting"
    /\ LET limit == parse_rate_limit_header(header)
       IN  req' = [req EXCEPT
                     !.responses = Append(@, status_code),
                     !.throttled = should_throttle(limit[1], limit[2]),
                     !.pc = PcAfter(on_status(status_code, req.retry_count))]
    /\ UNCHANGED <<jobVars, lc, fn>>

\* the request fails in transport
RequestError ==
    /\ req.pc = "waiting"
    /\ req' = [req EXCEPT
                 !.responses = Append(@, TransportError),
                 !.throttled = FALSE,
                 !.pc = PcAfter(on_request_error(req.retry_count))]
    /\ UNCHANGED <<jobVars, lc, fn>>

\* the sleep ends: _request calls itself with retry_count + 1 and sends again
Retry ==
    /\ req.pc = "sleeping"
    /\ req' = [req EXCEPT !.pc = "waiting", !.retry_count = @ + 1, !.attempts = @ + 1]
    /\ UNCHANGED <<jobVars, lc, fn>>

-----------------------------------------------------------------------------
(* link_checker.py: LinkCheckResult and LinkChecker *)

\* a URL: its origin (scheme and host) and its path; a Location header value has
\* the same shape, with an empty origin when it starts with "/"
Url(origin, path) == [origin |-> origin, path |-> path]

NoUrl == Url("", "")      \* None, or a header that is absent or empty
NoStatus == 0             \* status_code None
NoError == ""             \* error None

LinkCheckResult(original_url, final_url, broken, link_status, http_status, was_redirected, redirect_count, error) ==
    [original_url |-> original_url, final_url |-> final_url, is_broken |-> broken,
     link_status |-> link_status, http_status |-> http_status,
     was_redirected |-> was_redirected, redirect_count |-> redirect_count,
     error |-> error]

\* the result slot of a check_url call that has not returned
NoResult == LinkCheckResult(NoUrl, NoUrl, FALSE, "", NoStatus, "False", 0, NoError)

\* the Python values a was_redirected field holds, and which of them count as
\* true in a condition
truthy(value) == value = "True"

\* "redirect_count > 0 or (final_url and final_url != original_url)": Python's
\* or and and give the operand that decided them, so the value is True when
\* redirect_count > 0, else final_url itself when that is None, else the
\* comparison
or_and(redirect_count, final_url, original_url) ==
    IF redirect_count > 0 THEN "True"
    ELSE IF final_url = NoUrl THEN "None"
    ELSE IF final_url # original_url THEN "True" ELSE "False"

\* LinkCheckResult.classify_status
classify_status(original_url, status_code, final_url, redirect_count, error, error_type) ==
    LET was_redirected == or_and(redirect_count, final_url, original_url)
        Result(broken, link_status, http_status, redirected, message) ==
            LinkCheckResult(original_url, final_url, broken, link_status, http_status,
                            redirected, redirect_count, message)
    IN  IF error # NoError
        THEN Result(TRUE,
                    IF error_type = "timeout" THEN "broken_timeout"
                    ELSE IF error_type = "dns" THEN "broken_dns"
                    ELSE IF error_type = "ssl" THEN "broken_ssl"
                    ELSE IF error_type = "too_many_redirects"
                         THEN "broken_too_many_redirects"
                    ELSE "broken_other",
                    status_code, was_redirected, error)
        ELSE IF status_code = NoStatus
        THEN Result(TRUE, "broken_other", NoStatus, was_redirected, "No response received")
        ELSE IF 200 <= status_code /\ status_code < 300
        THEN Result(FALSE, IF truthy(was_redirected) THEN "redirected_ok" ELSE "ok",
                    status_code, was_redirected, NoError)
        ELSE IF 300 <= status_code /\ status_code < 400
        THEN Result(FALSE, "redirected_ok", status_code, "True", NoError)
        ELSE IF status_code = 404
        THEN Result(TRUE, "broken_not_found", status_code, was_redirected, "Not Found")
        ELSE IF 400 <= status_code /\ status_code < 500
        THEN Result(TRUE, "broken_client_error", status_code, was_redirected, "Client Error")
        ELSE IF 500 <= status_code /\ status_code < 600
        THEN Result(TRUE, "broken_server_error", status_code, was_redirected, "Server Error")
        ELSE Result(TRUE, "broken_other", status_code, was_redirected, "Unknown Status")

\* LinkChecker.__init__: the settings and the semaphore, no check_urls call yet
NewChecker(follow_redirects, concurrency, max_redirects) ==
    [follow_redirects |-> follow_redirects, concurrency |-> concurrency,
     max_redirects |-> max_redirects, permits |-> concurrency,
     pc |-> "idle", urls |-> <<>>, tasks |-> <<>>, finished |-> <<>>,
     returned |-> <<>>]

\* check_url(url) before it has entered the semaphore, with its locals;
\* status_code and location are the code and the Location header of the last
\* response, cause is what the
\* last GET met, requested is the URLs client.get was called with, in order
NewTask(url) ==
    [pc |-> "waiting", original_url |-> url, current_url |-> url, redirect_count |-> 0,
     status_code |-> NoStatus, location |-> NoUrl, cause |-> "", requested |-> <<>>,
     result |-> NoResult]

\* "current_url if current_url != original_url else None"
final_url_of(task) ==
    IF task.current_url # task.original_url THEN task.current_url ELSE NoUrl

\* "if location.startswith('/')": the location on the origin of the current URL
resolve_location(current_url, location) ==
    IF location.origin = "" THEN Url(current_url.origin, location.path) ELSE location

\* check_url returns a result, leaving the semaphore block
Return(task, cause, result) == [task EXCEPT !.pc = "done", !.cause = cause, !.result = result]

\* an exception leaves check_url, leaving the semaphore block
Raise(task, cause) == [task EXCEPT !.pc = "raised", !.cause = cause]

\* variant of follows: redirects are followed whatever the setting
follows_always(self) == TRUE

\* "if not self.follow_redirects"
follows(self) == self.follow_redirects

\* variant of over_limit: no number of redirects is too many
over_limit_never(self, redirect_count) == FALSE

\* check_url, "if redirect_count > self.max_redirects"
over_limit(self, redirect_count) == redirect_count > self.max_redirects

\* check_url, from a response of client.get to the return or the next GET
on_response(self, call, response) ==
    LET status_code == response.status_code
        task == [call EXCEPT !.status_code = status_code, !.location = response.location]
    IN  IF 300 <= status_code /\ status_code < 400
        THEN IF ~follows(self)
             THEN Return(task, "response",
                         classify_status(task.original_url, status_code, response.location,
                                         task.redirect_count, NoError, ""))
             ELSE LET redirect_count == task.redirect_count + 1
                  IN  IF over_limit(self, redirect_count)
                      THEN Return(task, "response",
                                  classify_status(task.original_url, status_code,
                                                  task.current_url, redirect_count,
                                                  "Too many redirects", "too_many_redirects"))
                      ELSE IF response.location = NoUrl
                      THEN Return(task, "response",
                                  classify_status(task.original_url, status_code,
                                                  task.current_url, redirect_count,
                                                  "Redirect without location header", "other"))
                      ELSE [task EXCEPT
                               !.redirect_count = redirect_count,
                               !.current_url = resolve_location(task.current_url,
                                                                response.location)]
        ELSE Return(task, "response",
                    classify_status(task.original_url, status_code, final_url_of(task),
                                    task.redirect_count, NoError, ""))

\* variant of on_exception: the handler of last resort left out
on_exception_no_catch_all(task, exc) ==
    LET Failed(error, error_type) ==
            Return(task, exc.cause,
                   classify_status(task.original_url, NoStatus, final_url_of(task),
                                   task.redirect_count, error, error_type))
    IN  IF exc.class = "TimeoutException" THEN Failed("Request timeout", "timeout")
        ELSE IF exc.class = "ConnectError"
        THEN IF "name or service not known" \in exc.message \/ "getaddrinfo" \in exc.message
             THEN Failed("DNS resolution failed", "dns")
             ELSE Failed("Connection error", "other")
        ELSE IF exc.class = "TooManyRedirects"
        THEN Failed("Too many redirects", "too_many_redirects")
        ELSE IF exc.class = "SSLError" THEN Failed("SSL error", "ssl")
        ELSE IF exc.class = "HTTPError"
        THEN Failed("HTTP error", IF "ssl" \in exc.message THEN "ssl" ELSE "other")
        ELSE Raise(task, exc.cause)

\* check_url, the except clauses in the order Python tries them: the two around
\* client.get, then the four around the loop.  exc.class is the class the first
\* matching clause names; exc.message is the set of phrases str(e).lower() holds
on_exception(task, exc) ==
    LET Failed(error, error_type) ==
            Return(task, exc.cause,
                   classify_status(task.original_url, NoStatus, final_url_of(task),
                                   task.redirect_count, error, error_type))
    IN  IF exc.class = "TimeoutException" THEN Failed("Request timeout", "timeout")
        ELSE IF exc.class = "ConnectError"
        THEN IF "name or service not known" \in exc.message \/ "getaddrinfo" \in exc.message
             THEN Failed("DNS resolution failed", "dns")
             ELSE Failed("Connection error", "other")
        ELSE IF exc.class = "TooManyRedirects"
        THEN Failed("Too many redirects", "too_many_redirects")
        ELSE IF exc.class = "SSLError" THEN Failed("SSL error", "ssl")
        ELSE IF exc.class = "HTTPError"
        THEN Failed("HTTP error", IF "ssl" \in exc.message THEN "ssl" ELSE "other")
        ELSE Failed("Error", "other")

\* variant of can_enter: the semaphore never makes a caller wait
can_enter_always(self) == TRUE

\* "async with self.semaphore": a caller enters while the semaphore has a permit
can_enter(self) == self.permits > 0

\* variant of gather_results: the results in the order the calls finished
gather_in_completion_order(tasks, finished) ==
    [k \in 1..Len(finished) |-> tasks[finished[k]].result]

\* asyncio.gather(*tasks): the results in the order of the awaitables given
gather_results(tasks, finished) == [i \in 1..Len(tasks) |-> tasks[i].result]

\* check_urls(urls): nothing to do for an empty list, else one check_url per URL
CheckUrls(urls) ==
    /\ lc.pc = "idle"
    /\ lc' = IF urls = <<>>
             THEN [lc EXCEPT !.pc = "returned", !.urls = urls]
             ELSE [lc EXCEPT !.pc = "gathering", !.urls = urls,
                             !.tasks = [i \in 1..Len(urls) |-> NewTask(urls[i])]]
    /\ UNCHANGED <<jobVars, req, fn>>

\* check_url i enters the semaphore block and issues its first GET
Enter(i) ==
    /\ lc.pc = "gathering"
    /\ lc.tasks[i].pc = "waiting"
    /\ can_enter(lc)
    /\ lc' = [lc EXCEPT !.permits = @ - 1, !.tasks[i].pc = "get",
                        !.tasks[i].requested = <<lc.tasks[i].current_url>>]
    /\ UNCHANGED <<jobVars, req, fn>>

\* variant of Advance: a call that leaves the block keeps its permit
Advance_keeping_permit(i, task) ==
    lc' = IF task.pc = "get"
          THEN [lc EXCEPT !.tasks[i] = [task EXCEPT !.requested = Append(@, task.current_url)]]
          ELSE [lc EXCEPT !.tasks[i] = task, !.finished = Append(@, i)]

\* what check_url i does with the task it has become: it stays in the block for
\* another GET or leaves it, giving the permit back
Advance(i, task) ==
    lc' = IF task.pc = "get"
          THEN [lc EXCEPT !.tasks[i] = [task EXCEPT !.requested = Append(@, task.current_url)]]
          ELSE [lc EXCEPT !.tasks[i] = task, !.permits = @ + 1,
                          !.finished = Append(@, i)]

\* client.get of check_url i answers
GetResponds(i, response) ==
    /\ lc.pc = "gathering"
    /\ lc.tasks[i].pc = "get"
    /\ Advance(i, on_response(lc, lc.tasks[i], response))
    /\ UNCHANGED <<jobVars, req, fn>>

\* client.get of check_url i raises
GetRaises(i, exc) ==
    /\ lc.pc = "gathering"
    /\ lc.tasks[i].pc = "get"
    /\ Advance(i, on_exception(lc.tasks[i], exc))
    /\ UNCHANGED <<jobVars, req, fn>>

\* asyncio.gather ends: check_urls returns the list, or the exception of a call
Gather ==
    /\ lc.pc = "gathering"
    /\ \A i \in DOMAIN lc.tasks : lc.tasks[i].pc \in {"done", "raised"}
    /\ lc' = IF \E i \in DOMAIN lc.tasks : lc.tasks[i].pc = "raised"
             THEN [lc EXCEPT !.pc = "raised"]
             ELSE [lc EXCEPT !.pc = "returned",
                             !.returned = gather_results(lc.tasks, lc.finished)]
    /\ UNCHANGED <<jobVars, req, fn>>

-----------------------------------------------------------------------------
(* Specifications *)

\* JobConfig values drawn by the jobs of the model
BaseConfig ==
    [shop |-> "shop1", namespace |-> "custom", key |-> "video_url", status |-> "active",
     collection_ids |-> <<>>, batch_size |-> 1, dry_run |-> FALSE, auto_action |-> FALSE,
     broken_action |-> "draft", updated_after |-> 0, resume_token |-> NoToken,
     concurrency |-> DefaultConcurrency]

BatchSizeMax == 250      \* JobConfig.batch_size: Field(ge=1, le=250)
ConcurrencyMax == 100    \* JobConfig.concurrency: Field(ge=1, le=100)

\* variant of validate_config: every value is let through
validate_nothing(config) == TRUE

\* JobConfig(...): the Field constraints on batch_size and concurrency hold, or
\* the constructor raises a ValidationError
validate_config(config) ==
    /\ 1 <= config.batch_size /\ config.batch_size <= BatchSizeMax
    /\ 1 <= config.concurrency /\ config.concurrency <= ConcurrencyMax

\* a token obtained from an earlier job of the given scope while it was in its
\* batch loop (GET /jobs/{id} hands out job.get_resume_token() at any time):
\* all pages fetched, product 1 processed
MidRunToken(status, collection_ids) ==
    [kind |-> "b64",
     text |-> model_dump_json(
        [FreshCheckpoint(compute_scope_hash(BaseConfig.shop, status, BaseConfig.namespace,
                                            BaseConfig.key, collection_ids))
            EXCEPT !.seen_ids = <<1>>])]

Modes ==
    {[status |-> st, collection_ids |-> cids, batch_size |-> bs] :
        st \in {"active", "any"}, cids \in {<<>>, <<20, 10>>}, bs \in {1, MaxBatchSize}}

InMode(config, mode) ==
    [config EXCEPT !.status = mode.status, !.collection_ids = mode.collection_ids,
                   !.batch_size = mode.batch_size]

\* the settings of dry_run, auto_action and broken_action, one for each way
\* _process_product can act on a broken link: would_draft, would_archive,
\* drafted, archived, ignored, no_action
Flags ==
    {<<TRUE, TRUE, "draft">>, <<TRUE, FALSE, "archive">>, <<FALSE, FALSE, "draft">>}
        \cup {<<FALSE, TRUE, ba>> : ba \in ProductActions}

\* Spec: the modes of the largest batch size with each of these settings and no
\* token; the modes of batch size 1 with auto_action and broken_action "draft";
\* and the modes of the largest batch size with a token that does not decode,
\* one of the scope (any, no collections) and one of the scope (any, [10, 20])
Configs ==
    {InMode([BaseConfig EXCEPT !.dry_run = f[1], !.auto_action = f[2],
                               !.broken_action = f[3]], mode) :
        mode \in {m \in Modes : m.batch_size = MaxBatchSize}, f \in Flags}
    \cup
    {InMode([BaseConfig EXCEPT !.auto_action = TRUE], mode) :
        mode \in {m \in Modes : m.batch_size = 1}}
    \cup
    {InMode([BaseConfig EXCEPT !.auto_action = TRUE, !.resume_token = tok], mode) :
        mode \in {m \in Modes : m.batch_size = MaxBatchSize},
        tok \in {GarbageToken, MidRunToken("any", <<>>), MidRunToken("any", <<10, 20>>)}}

\* ManualSpec: the active products by status, with every combination of the flags
ManualConfigs ==
    {[BaseConfig EXCEPT !.status = "active", !.batch_size = 2, !.dry_run = dr,
                        !.auto_action = aa, !.broken_action = ba] :
        dr \in BOOLEAN, aa \in BOOLEAN, ba \in ProductActions}

\* ResumeSpec: the first job has no token; the second is given a token a final
\* event handed out, or one that does not decode
FirstConfigs == {InMode(BaseConfig, mode) : mode \in Modes}

ResumeConfigs ==
    {InMode([BaseConfig EXCEPT !.resume_token = tok], mode) :
        mode \in Modes, tok \in {GarbageToken} \cup EmittedTokens}

Init ==
    /\ jobs = <<>>
    /\ runs = <<>>
    /\ catStatus = CatalogStatus0
    /\ mutations = <<>>
    /\ manual = <<>>
    /\ req = Req0
    /\ fn = NoCall
    /\ lc = NewChecker(DefaultFollow, DefaultConcurrency, DefaultMaxRedirects)

JobNext ==
    \/ jobs = <<>> /\ \E config \in Configs : CreateJob(config)
    \/ \E j \in DOMAIN jobs : RunStart(j)
    \/ \E r \in DOMAIN runs, ok \in BOOLEAN : FetchPage(r, ok)
    \/ \E r \in DOMAIN runs, ok \in BOOLEAN : FetchCollects(r, ok)
    \/ \E r \in DOMAIN runs, ok \in BOOLEAN : Hydrate(r, ok)
    \/ \E r \in DOMAIN runs : ProcessProduct(r, MetaOutcomes, BOOLEAN)
    \/ \E r \in DOMAIN runs : NextEvent(r)

Spec == Init /\ [][JobNext]_vars

\* one job, its runs and manual actions on the products of its ledger; every
\* catalog read succeeds and every metadata field read holds links
ManualNext ==
    \/ jobs = <<>> /\ \E config \in ManualConfigs : CreateJob(config)
    \/ \E j \in DOMAIN jobs : RunStart(j)
    \/ \E r \in DOMAIN runs : FetchPage(r, TRUE)
    \/ \E r \in DOMAIN runs : ProcessProduct(r, {"links"}, BOOLEAN)
    \/ \E r \in DOMAIN runs : NextEvent(r)
    \/ \E j \in DOMAIN jobs, a \in ProductActions, ok \in BOOLEAN :
          \E p \in {jobs[j].results[i].product_id : i \in DOMAIN jobs[j].results} :
             UpdateProductAction(j, p, a, ok)

ManualSpec == Init /\ [][ManualNext]_vars

\* a job, and after its runs a second job that may resume it; every product's
\* metadata field is without links
ResumeNext ==
    \/ jobs = <<>> /\ \E config \in FirstConfigs : CreateJob(config)
    \/ /\ Len(jobs) = 1
       /\ runs # <<>>
       /\ \A r \in DOMAIN runs : ~Active(r)
       /\ \E config \in ResumeConfigs : CreateJob(config)
    \/ \E j \in DOMAIN jobs : RunStart(j)
    \/ \E r \in DOMAIN runs, ok \in BOOLEAN : FetchPage(r, ok)
    \/ \E r \in DOMAIN runs, ok \in BOOLEAN : FetchCollects(r, ok)
    \/ \E r \in DOMAIN runs, ok \in BOOLEAN : Hydrate(r, ok)
    \/ \E r \in DOMAIN runs : ProcessProduct(r, {"no_links"}, {TRUE})
    \/ \E r \in DOMAIN runs : NextEvent(r)

ResumeSpec == Init /\ [][ResumeNext]_vars

ClientNext ==
    \/ Call
    \/ \E status_code \in StatusCodes, header \in RateLimitHeaders :
          Respond(status_code, header)
    \/ RequestError
    \/ Retry

ClientSpec == Init /\ [][ClientNext]_vars

\* HiddenSpec: the catalog may hold products 1 and 3 active, draft or archived
\* when the job starts; the job takes every product by status "any", with every
\* combination of the flags; every catalog read succeeds and every metadata
\* field read holds links
HiddenCatalogs == {cat \in [Products -> {"active", "draft", "archived"}] : cat[2] = "draft"}

HiddenConfigs ==
    {[BaseConfig EXCEPT !.status = "any", !.batch_size = MaxBatchSize, !.dry_run = dr,
                        !.auto_action = aa, !.broken_action = ba] :
        dr \in BOOLEAN, aa \in BOOLEAN, ba \in ProductActions}

HiddenInit ==
    /\ jobs = <<>>
    /\ runs = <<>>
    /\ catStatus \in HiddenCatalogs
    /\ mutations = <<>>
    /\ manual = <<>>
    /\ req = Req0
    /\ fn = NoCall
    /\ lc = NewChecker(DefaultFollow, DefaultConcurrency, DefaultMaxRedirects)

HiddenNext ==
    \/ jobs = <<>> /\ \E config \in HiddenConfigs : CreateJob(config)
    \/ \E j \in DOMAIN jobs : RunStart(j)
    \/ \E r \in DOMAIN runs : FetchPage(r, TRUE)
    \/ \E r \in DOMAIN runs : ProcessProduct(r, {"links"}, BOOLEAN)
    \/ \E r \in DOMAIN runs : NextEvent(r)

HiddenSpec == HiddenInit /\ [][HiddenNext]_vars

\* the link checker's surroundings: the URLs it is given, what the servers
\* answer and how a GET can fail
CheckedUrls == {Url("http://a", "/v"), Url("http://b", "/v")}

UrlLists == UNION {[1..n -> CheckedUrls] : n \in 0..MaxUrls}

Response(status_code, location) == [status_code |-> status_code, location |-> location]

RedirectCodes == {301, 302}

FinalCodes == {200, 204, 400, 403, 404, 410, 500, 503, 999}

\* Location headers: none, a path, another URL, the first URL again
Locations == {NoUrl, Url("", "/w"), Url("http://b", "/v"), Url("http://a", "/v")}

Responses ==
    {Response(c, NoUrl) : c \in FinalCodes}
        \cup {Response(c, l) : c \in RedirectCodes, l \in Locations}

Exc(cause, class, message) == [cause |-> cause, class |-> class, message |-> message]

\* what client.get raises, by what went wrong.  httpx reports a failed name
\* lookup as ConnectError carrying the resolver's message, which differs by
\* platform and by error; a failed TLS handshake reaches check_url as
\* ConnectError carrying the ssl message or, from a transport that does not map
\* it, as ssl.SSLError itself; failures after the connection is up are other
\* HTTPError subclasses; anything else is a plain Exception
Failures ==
    {Exc("timeout", "TimeoutException", {}),
     Exc("dns", "ConnectError", {"name or service not known"}),
     Exc("dns", "ConnectError", {"getaddrinfo"}),
     Exc("dns", "ConnectError", {"temporary failure in name resolution"}),
     Exc("tls", "ConnectError", {"ssl", "certificate verify failed"}),
     Exc("tls", "SSLError", {"ssl", "certificate verify failed"}),
     Exc("tls", "HTTPError", {"ssl"}),
     Exc("transport", "ConnectError", {"connection refused"}),
     Exc("transport", "HTTPError", {}),
     Exc("transport", "Exception", {})}

CheckerInit(checkers) ==
    /\ jobs = <<>>
    /\ runs = <<>>
    /\ catStatus = CatalogStatus0
    /\ mutations = <<>>
    /\ manual = <<>>
    /\ req = Req0
    /\ fn = NoCall
    /\ lc \in checkers

\* CheckUrlsSpec: one check_urls call over up to MaxUrls URLs on a checker of
\* any concurrency up to MaxConcurrency; a GET answers 200 or 404, or times out
GatherCheckers ==
    {NewChecker(DefaultFollow, c, DefaultMaxRedirects) : c \in 1..MaxConcurrency}

GatherResponses == {Response(200, NoUrl), Response(404, NoUrl)}

GatherFailures == {Exc("timeout", "TimeoutException", {})}

CheckUrlsInit == CheckerInit(GatherCheckers)

CheckUrlsNext ==
    \/ \E urls \in UrlLists : CheckUrls(urls)
    \/ \E i \in DOMAIN lc.tasks : Enter(i)
    \/ \E i \in DOMAIN lc.tasks, response \in GatherResponses : GetResponds(i, response)
    \/ \E i \in DOMAIN lc.tasks, exc \in GatherFailures : GetRaises(i, exc)
    \/ Gather

CheckUrlsSpec == CheckUrlsInit /\ [][CheckUrlsNext]_vars

\* LongRunSpec: a run over a catalog that lists, ahead of the products of
\* CatalogList, CheckpointEvery - 2 or CheckpointEvery - 1 products that have no
\* metadata field.  The job was created with no token or with the token of an
\* earlier job whose checkpoint had counted n products, n a multiple of
\* CheckpointEvery; batch_size is the largest, so the listing is one page and
\* one batch.  The specification starts where the listing has been read and
\* the batch loop begins.
EarlierProducts(n) == [i \in 1..n |-> [id |-> 100 + i, status |-> "active", updated_at |-> 1]]

\* the token of a job that ended with n products seen and counted
LongToken(n) ==
    [kind |-> "b64",
     text |-> model_dump_json(
        [FreshCheckpoint(compute_scope_hash(BaseConfig.shop, "any", BaseConfig.namespace,
                                            BaseConfig.key, <<>>))
            EXCEPT !.seen_ids = [i \in 1..n |-> 1000 + i], !.processed_count = n])]

LongConfigs ==
    {[BaseConfig EXCEPT !.status = "any", !.batch_size = BatchSizeMax, !.resume_token = tok] :
        tok \in {NoToken, LongToken(CheckpointEvery), LongToken(2 * CheckpointEvery)}}

\* create_job(config), then run_job up to the first product of the first batch,
\* the listing having returned `before` products ahead of those of CatalogList
LongRunState(config, before) ==
    LET job0 == [NewJob(config) EXCEPT !.checkpoint = restore_checkpoint(config),
                                       !.status = "running"]
        ck == IF job0.checkpoint = NoCheckpoint
              THEN FreshCheckpoint(get_scope_hash(config))
              ELSE job0.checkpoint
        earlier == EarlierProducts(before)
        listed == get_products(config.status, config.batch_size, 0, CatalogStatus0).products
        run0 == [job |-> 1, pc |-> "fetch", seen_ids |-> Range(ck.seen_ids),
                 products |-> <<>>, page_info |-> 0, cidx |-> 1, all_product_ids |-> {},
                 chunks |-> <<>>, chunk |-> 1, pos |-> 1, batch_results |-> <<>>,
                 events |-> <<>>, first |-> TRUE, ck0 |-> ck, seen0 |-> Range(ck.seen_ids),
                 fetched |-> {earlier[i].id : i \in 1..before}
                                \cup {listed[i].id : i \in DOMAIN listed},
                 processed |-> <<>>, read_failed |-> FALSE, raised |-> FALSE,
                 ck_fail |-> NoCheckpoint, last |-> NoneRead]
    IN  start_batches([job0 EXCEPT !.checkpoint = ck], run0, earlier \o listed)

LongRunInit ==
    /\ \E config \in LongConfigs, before \in {CheckpointEvery - 2, CheckpointEvery - 1} :
          /\ jobs = <<LongRunState(config, before).job>>
          /\ runs = <<LongRunState(config, before).run>>
    /\ catStatus = CatalogStatus0
    /\ mutations = <<>>
    /\ manual = <<>>
    /\ req = Req0
    /\ fn = NoCall
    /\ lc = NewChecker(DefaultFollow, DefaultConcurrency, DefaultMaxRedirects)

\* the metadata field of a product of CatalogList is absent or holds links;
\* that of a product listed ahead of them is absent
LongRunNext ==
    \/ \E r \in DOMAIN runs :
          /\ runs[r].pc = "process"
          /\ runs[r].products[runs[r].pos].id \notin Products
          /\ ProcessProduct(r, {"absent"}, {TRUE})
    \/ \E r \in DOMAIN runs :
          /\ runs[r].pc = "process"
          /\ runs[r].products[runs[r].pos].id \in Products
          /\ ProcessProduct(r, {"absent", "links"}, {TRUE})
    \/ \E r \in DOMAIN runs : NextEvent(r)

LongRunSpec == LongRunInit /\ [][LongRunNext]_vars

\* PermitSpec: one check_urls call over up to MaxUrls equal URLs on a checker that
\* follows one redirect, of any concurrency up to MaxConcurrency.  A GET is
\* answered 200 or with a redirect, or fails with an exception that only the
\* last except clause catches.  The event loop
\* runs every coroutine that is ready: a waiter is woken when the semaphore has
\* a permit, gather returns when every call is done, and every GET settles
PermitCheckers == {NewChecker(DefaultFollow, c, 1) : c \in 1..MaxConcurrency}

PermitResponses == {Response(200, NoUrl), Response(301, Url("http://b", "/v"))}

PermitFailures == {Exc("transport", "Exception", {})}

\* the lists of URLs, all of them the same URL
PermitUrlLists == UNION {[1..n -> {Url("http://a", "/v")}] : n \in 0..MaxUrls}

PermitInit == CheckerInit(PermitCheckers)

PermitNext ==
    \/ \E urls \in PermitUrlLists : CheckUrls(urls)
    \/ \E i \in DOMAIN lc.tasks : Enter(i)
    \/ \E i \in DOMAIN lc.tasks, response \in PermitResponses : GetResponds(i, response)
    \/ \E i \in DOMAIN lc.tasks, exc \in PermitFailures : GetRaises(i, exc)
    \/ Gather

PermitSpec ==
    /\ PermitInit
    /\ [][PermitNext]_vars
    /\ WF_vars(\E i \in DOMAIN lc.tasks : Enter(i))
    /\ WF_vars(Gather)
    /\ \A i \in 1..MaxUrls :
          WF_vars(/\ i \in DOMAIN lc.tasks
                  /\ \/ \E response \in PermitResponses : GetResponds(i, response)
                     \/ \E exc \in PermitFailures : GetRaises(i, exc))

\* CheckUrlSpec: one URL on a checker with either redirect setting and any
\* redirect limit up to MaxRedirects; a GET meets every response and failure
UrlCheckers ==
    {NewChecker(f, 1, m) : f \in BOOLEAN, m \in 1..MaxRedirects}

CheckUrlInit == CheckerInit(UrlCheckers)

CheckUrlNext ==
    \/ \E url \in CheckedUrls : CheckUrls(<<url>>)
    \/ \E i \in DOMAIN lc.tasks : Enter(i)
    \/ \E i \in DOMAIN lc.tasks, response \in Responses : GetResponds(i, response)
    \/ \E i \in DOMAIN lc.tasks, exc \in Failures : GetRaises(i, exc)
    \/ Gather

CheckUrlSpec == CheckUrlInit /\ [][CheckUrlNext]_vars

-----------------------------------------------------------------------------
(* utils.py: extract_urls.  A text is a list of characters; the scheme       *)
(* prefix "http://" (any case, with or without s) is one character of the   *)
(* model, as are the entities "&amp;" and "&lt;" before they are decoded.    *)
(* text None is the record with is_none TRUE.                               *)

Scheme == "http://"

\* html.unescape
unescape(chars) ==
    [i \in DOMAIN chars |->
        CASE chars[i] = "&amp;" -> "&"
          [] chars[i] = "&lt;" -> "<"
          [] OTHER -> chars[i]]

\* the characters the class [^\s"<>] leaves out
Stops == {" ", "<"}

\* of the class [.,;:!?)], the one character the texts of the model hold
Punctuation == {"."}

RECURSIVE match_end(_, _)
\* [^\s"<>]+ from position i, which it accepts: the last position of the match
match_end(chars, i) ==
    IF i < Len(chars) /\ chars[i + 1] \notin Stops THEN match_end(chars, i + 1) ELSE i

RECURSIVE findall_from(_, _)
\* re.findall(url_pattern, text) scanning from position i: the leftmost matches
\* that do not overlap
findall_from(chars, i) ==
    IF i > Len(chars) THEN <<>>
    ELSE IF chars[i] = Scheme /\ i < Len(chars) /\ chars[i + 1] \notin Stops
    THEN LET j == match_end(chars, i + 1)
         IN  <<SubSeq(chars, i, j)>> \o findall_from(chars, j + 1)
    ELSE findall_from(chars, i + 1)

\* variant of strip_trailing: only the last character is removed
strip_last(url) ==
    IF url # <<>> /\ url[Len(url)] \in Punctuation THEN SubSeq(url, 1, Len(url) - 1) ELSE url

RECURSIVE strip_trailing(_)
\* re.sub(r"[.,;:!?)]+$", "", url)
strip_trailing(url) ==
    IF url # <<>> /\ url[Len(url)] \in Punctuation
    THEN strip_trailing(SubSeq(url, 1, Len(url) - 1))
    ELSE url

\* extract_urls up to the order of the list: set(cleaned_urls)
extract_urls(text) ==
    IF text.is_none \/ text.chars = <<>> THEN {}
    ELSE LET urls == findall_from(unescape(text.chars), 1)
         IN  {strip_trailing(urls[i]) : i \in DOMAIN urls}

Characters == {Scheme, "a", ".", " ", "&amp;", "&lt;"}

Texts ==
    {[is_none |-> TRUE, chars |-> <<>>]}
        \cup {[is_none |-> FALSE, chars |-> chars] :
                 chars \in UNION {[1..n -> Characters] : n \in 0..MaxText}}

\* one call of extract_urls; list(set(...)) returns the set in some order
ExtractUrls(text) ==
    /\ fn = NoCall
    /\ \E urls \in UNION {[1..n -> extract_urls(text)] : n \in {Cardinality(extract_urls(text))}} :
          /\ Range(urls) = extract_urls(text)
          /\ fn' = [op |-> "extract_urls", text |-> text, result |-> urls]
    /\ UNCHANGED <<jobVars, req, lc>>

ExtractNext == fn = NoCall /\ \E text \in Texts : ExtractUrls(text)

ExtractSpec == Init /\ [][ExtractNext]_vars

\* LazySpec: a job over every listed product whose consumer may, after any
\* progress event, ask for the next event or stop and close the generator;
\* the job may then be run again
LazyConfigs ==
    {[BaseConfig EXCEPT !.status = "any", !.batch_size = batch_size, !.auto_action = TRUE] :
        batch_size \in 1..MaxBatchSize}

LazyNext ==
    \/ jobs = <<>> /\ \E config \in LazyConfigs : CreateJob(config)
    \/ \E j \in DOMAIN jobs : RunStart(j)
    \/ \E r \in DOMAIN runs : FetchPage(r, TRUE)
    \/ \E r \in DOMAIN runs : ProcessProduct(r, {"absent", "links"}, {TRUE})
    \/ \E r \in DOMAIN runs : NextEvent(r)
    \/ \E r \in DOMAIN runs : CloseRun(r)

LazySpec == Init /\ [][LazyNext]_vars

\* ReplaySpec: a job over every listed product, created without a token or
\* with the token a run of batch size 2 emits when its read of the second page
\* of the listing fails; after its runs a second job of the same configuration
\* is given a token the first has emitted.  Every catalog read succeeds and no
\* metadata field holds a link, so the catalog stays as it is
InterruptedToken ==
    [kind |-> "b64",
     text |-> model_dump_json(
        [FreshCheckpoint(compute_scope_hash(BaseConfig.shop, "any", BaseConfig.namespace,
                                            BaseConfig.key, <<>>))
            EXCEPT !.page_info = 2])]

ReplayConfigs ==
    {[BaseConfig EXCEPT !.status = "any", !.batch_size = batch_size, !.resume_token = tok] :
        batch_size \in 1..MaxBatchSize, tok \in {NoToken, InterruptedToken}}

ReplayNext ==
    \/ jobs = <<>> /\ \E config \in ReplayConfigs : CreateJob(config)
    \/ /\ Len(jobs) = 1
       /\ runs # <<>>
       /\ \A r \in DOMAIN runs : ~Active(r)
       /\ \E tok \in EmittedTokens : CreateJob([jobs[1].config EXCEPT !.resume_token = tok])
    \/ \E j \in DOMAIN jobs : RunStart(j)
    \/ \E r \in DOMAIN runs : FetchPage(r, TRUE)
    \/ \E r \in DOMAIN runs : ProcessProduct(r, {"no_links"}, {TRUE})
    \/ \E r \in DOMAIN runs : NextEvent(r)

ReplaySpec == Init /\ [][ReplayNext]_vars

\* LiveSpec: one job of any mode, run under the proviso of the termination
\* claim: the listings are finite (the cursor chains of the model end), every
\* catalog call of a run returns or fails, and the consumer goes on asking for
\* events, so a step a run can take is eventually taken
RunSteps(r) ==
    \/ \E ok \in BOOLEAN : FetchPage(r, ok)
    \/ \E ok \in BOOLEAN : FetchCollects(r, ok)
    \/ \E ok \in BOOLEAN : Hydrate(r, ok)
    \/ ProcessProduct(r, {"error", "no_links"}, {TRUE})
    \/ NextEvent(r)

LiveNext ==
    \/ jobs = <<>> /\ \E config \in FirstConfigs : CreateJob(config)
    \/ \E j \in DOMAIN jobs : RunStart(j)
    \/ \E r \in DOMAIN runs : RunSteps(r)

LiveSpec == Init /\ [][LiveNext]_vars /\ \A r \in 1..MaxRuns : WF_vars(RunSteps(r))

\* ConfigSpec: configurations are constructed with batch sizes and concurrencies
\* at and beyond both ends of their ranges; a construction that raises creates
\* no job (main.start_check and cli.run build the JobConfig before create_job),
\* one that returns gives a job that is run with every catalog read succeeding
ConstructConfig(batch_size, concurrency) ==
    /\ jobs = <<>>
    /\ LET config == [BaseConfig EXCEPT !.batch_size = batch_size,
                                        !.concurrency = concurrency]
       IN  IF validate_config(config)
           THEN CreateJob(config)
           ELSE /\ fn = NoCall
                /\ fn' = [op |-> "JobConfig", batch_size |-> batch_size,
                          concurrency |-> concurrency, raised |-> "ValidationError"]
                /\ UNCHANGED <<jobVars, req, lc>>

ConfigNext ==
    \/ \E batch_size \in {0, 1, MaxBatchSize, BatchSizeMax, BatchSizeMax + 1},
          concurrency \in {0, 1, ConcurrencyMax, ConcurrencyMax + 1} :
          ConstructConfig(batch_size, concurrency)
    \/ \E j \in DOMAIN jobs : RunStart(j)
    \/ \E r \in DOMAIN runs : FetchPage(r, TRUE)
    \/ \E r \in DOMAIN runs : ProcessProduct(r, {"absent"}, {TRUE})
    \/ \E r \in DOMAIN runs : NextEvent(r)

ConfigSpec == Init /\ [][ConfigNext]_vars

\* ScopeSpec: a job of any scope is created and started, which gives it a
\* checkpoint; its token is then given to a second job of any scope.  The two
\* metafield names are each other's namespace and key
ScopeConfigs ==
    {[BaseConfig EXCEPT !.shop = shop, !.status = status, !.namespace = namespace,
                        !.key = key, !.collection_ids = collection_ids] :
        shop \in {"shop1", "shop2"}, status \in {"active", "any"},
        namespace \in {"custom", "video_url"}, key \in {"video_url", "custom"},
        collection_ids \in {<<>>, <<10>>, <<10, 20>>, <<20, 10>>}}

ScopeNext ==
    \/ jobs = <<>> /\ \E config \in ScopeConfigs : CreateJob(config)
    \/ Len(jobs) = 1 /\ runs = <<>> /\ StartRun(1)
    \/ /\ Len(jobs) = 1
       /\ runs # <<>>
       /\ \E config \in ScopeConfigs :
             CreateJob([config EXCEPT !.resume_token = get_resume_token(jobs[1])])

ScopeSpec == Init /\ [][ScopeNext]_vars

\* FetchSpec: one call of get_products_by_ids, or of
\* _fetch_products_by_collections with every catalog call returning.  The lists
\* of the model are short, so both 250s of the hydration loop are scaled to one
\* size up to MaxLimit, which the lists exceed; the collections are taken in
\* either order from stored cursors at any page start, with any set of seen IDs
IdLists == UNION {[1..n -> Products] : n \in 0..MaxIds}

PageStarts(collection_id, page_limit) ==
    {k \in 0..(Len(CollectsList[collection_id]) - 1) : k % page_limit = 0}

GetProductsByIds(product_ids, limit) ==
    /\ fn = NoCall
    /\ fn' = [op |-> "get_products_by_ids", product_ids |-> product_ids, limit |-> limit,
              requests |-> IF product_ids = <<>> THEN <<>>
                           ELSE <<request_ids(product_ids, limit)>>,
              result |-> get_products_by_ids(product_ids, limit, catStatus)]
    /\ UNCHANGED <<jobVars, req, lc>>

FetchProductsByCollections(collection_ids, cursors, seen_ids, status, page_limit, size) ==
    /\ fn = NoCall
    /\ fn' = [op |-> "fetch_products_by_collections", collection_ids |-> collection_ids,
              cursors |-> cursors, seen_ids |-> seen_ids, status |-> status, size |-> size,
              result |-> fetch_products_by_collections(collection_ids, cursors, seen_ids,
                                                       status, page_limit, size, size,
                                                       catStatus)]
    /\ UNCHANGED <<jobVars, req, lc>>

FetchNext ==
    \/ \E product_ids \in IdLists, limit \in 1..MaxLimit :
          GetProductsByIds(product_ids, limit)
    \/ \E collection_ids \in {<<10>>, <<20>>, <<10, 20>>, <<20, 10>>},
          seen_ids \in SUBSET Products, status \in {"active", "draft", "any"},
          page_limit \in {1, MaxBatchSize}, size \in 1..MaxLimit :
          \E cursors \in [DOMAIN CollectsList -> 0..MaxBatchSize] :
             /\ \A c \in DOMAIN CollectsList :
                   cursors[c] \in (IF c \in Range(collection_ids)
                                   THEN PageStarts(c, page_limit) ELSE {0})
             /\ FetchProductsByCollections(collection_ids, cursors, seen_ids, status,
                                           page_limit, size)

FetchSpec == Init /\ [][FetchNext]_vars

\* ConcurrentSpec: one job over the active products; run_job may be called again
\* while an earlier call is suspended, and update_product_action at any time;
\* every catalog read succeeds, no product has the metadata field, and the
\* action asked for is "ignore"
ConcurrentConfigs == {[BaseConfig EXCEPT !.status = "active", !.batch_size = MaxBatchSize]}

ConcurrentNext ==
    \/ jobs = <<>> /\ \E config \in ConcurrentConfigs : CreateJob(config)
    \/ \E j \in DOMAIN jobs : StartRun(j)
    \/ \E r \in DOMAIN runs : FetchPage(r, TRUE)
    \/ \E r \in DOMAIN runs : ProcessProduct(r, {"absent"}, {TRUE})
    \/ \E r \in DOMAIN runs : NextEvent(r)
    \/ \E j \in DOMAIN jobs :
          \E p \in {jobs[j].results[i].product_id : i \in DOMAIN jobs[j].results} :
             UpdateProductAction(j, p, "ignore", TRUE)

ConcurrentSpec == Init /\ [][ConcurrentNext]_vars


-----------------------------------------------------------------------------
(* Properties *)

Last(s) == s[Len(s)]

Ended(r) == runs[r].pc \in {"final", "done"}

RowsOf(job, p) == {i \in DOMAIN job.results : job.results[i].product_id = p}

\* the catalog calls run r made / the manual calls made for job j
RunMutations(r) == {i \in DOMAIN mutations : mutations[i].run = r}

JobMutations(j) == {i \in DOMAIN mutations : mutations[i].job = j}

StatusSteps ==
    {<<"pending", "running">>, <<"running", "completed">>, <<"running", "failed">>}

\* C1: a job's status changes only along PENDING->RUNNING, RUNNING->COMPLETED and
\* RUNNING->FAILED, COMPLETED and FAILED are never left, and it is never CANCELLED
C1_StatusTransitions ==
    [][\A j \in DOMAIN jobs :
          /\ jobs'[j].status # "cancelled"
          /\ \/ jobs'[j].status = jobs[j].status
             \/ <<jobs[j].status, jobs'[j].status>> \in StatusSteps]_vars

\* the job of run r2 resumes the failed by-status run r1 with the token r1 emitted
ResumesFailed(r1, r2) ==
    LET j1 == runs[r1].job
        j2 == runs[r2].job
    IN  /\ j1 # j2
        /\ runs[r1].raised
        /\ runs[r2].first
        /\ jobs[j1].config.collection_ids = <<>>
        /\ get_scope_hash(jobs[j2].config) = get_scope_hash(jobs[j1].config)
        /\ jobs[j2].config.resume_token = Last(runs[r1].events).resume_token

\* C2: when a by-status run failed while fetching a page and a job of the same scope
\* was run to completion with the token it emitted, every product the listing
\* holds has a ledger row in one of the two jobs
C2_NoProductLost ==
    \A r1, r2 \in DOMAIN runs :
        (ResumesFailed(r1, r2) /\ Ended(r2) /\ ~runs[r2].raised)
        => \A p \in Products :
              (jobs[runs[r1].job].config.status = "any"
                  \/ catStatus[p] = jobs[runs[r1].job].config.status)
              => (RowsOf(jobs[runs[r1].job], p) # {} \/ RowsOf(jobs[runs[r2].job], p) # {})

NoDuplicates(s) == \A i, k \in DOMAIN s : i # k => s[i] # s[k]

\* the rows of product p are those of one _process_product call: one block of
\* rows, either the single no-URL row or one row for each of distinct URLs
OneBlock(job, p) ==
    LET rows == RowsOf(job, p)
    IN  /\ \A i, k \in rows : \A m \in i..k : m \in rows
        /\ \A i, k \in rows : i # k => job.results[i].original_url # job.results[k].original_url
        /\ \A i \in rows : job.results[i].link_status = "no_url" => rows = {i}

\* C3: a run passes no product ID through the seen check twice, processes no
\* product of the seen ids it started from, and calls the catalog mutation at most
\* once for a product, only for a product it processed; the rows of a product in
\* the ledger are those of a single processing
C3_ProcessedAtMostOnce ==
    /\ \A r \in DOMAIN runs :
          /\ NoDuplicates(runs[r].processed)
          /\ Range(runs[r].processed) \cap runs[r].seen0 = {}
          /\ \A i, k \in RunMutations(r) :
                i # k => mutations[i].product_id # mutations[k].product_id
          /\ \A i \in RunMutations(r) : mutations[i].product_id \in Range(runs[r].processed)
    /\ \A j \in DOMAIN jobs : \A p \in Products : OneBlock(jobs[j], p)

\* a finished run resumed from a token whose seen ids hold product 1: the catalog
\* returned product 1 to it again, and it processed the other products
C3_Witness ==
    \E r \in DOMAIN runs :
        /\ runs[r].pc = "done"
        /\ runs[r].first
        /\ jobs[runs[r].job].config.resume_token # NoToken
        /\ runs[r].seen0 = {1}
        /\ 1 \in runs[r].fetched
        /\ Len(runs[r].processed) = 2
        /\ RunMutations(r) # {}

\* the product of row i of the job has a broken link
HasBrokenLinks(job, i) ==
    \E k \in RowsOf(job, job.results[i].product_id) : job.results[k].is_broken

TokenMatches(config) ==
    /\ config.resume_token # NoToken
    /\ decode_resume_token(config.resume_token) # DecodeError
    /\ decode_resume_token(config.resume_token).scope_hash = get_scope_hash(config)

\* what the catalog reads of run_job raise
ReadFailures == {"get_products failed", "get_collects failed", "get_products_by_ids failed"}

\* C5: a job is created whatever its resume token; its checkpoint is the decoded
\* one only when the token decodes and carries the job's own scope fingerprint,
\* and otherwise its first run starts from a fresh checkpoint: no seen IDs, no
\* cursor, the job's own fingerprint.  A job fails only on a catalog read.
C5_BadTokenFreshCheckpoint ==
    /\ \A j \in DOMAIN jobs :
          /\ jobs[j].status = "pending"
             => jobs[j].checkpoint = (IF TokenMatches(jobs[j].config)
                                      THEN decode_resume_token(jobs[j].config.resume_token)
                                      ELSE NoCheckpoint)
          /\ jobs[j].status = "failed" => jobs[j].error \in ReadFailures
    /\ \A r \in DOMAIN runs :
          LET config == jobs[runs[r].job].config
          IN  (runs[r].first /\ ~TokenMatches(config))
              => /\ runs[r].seen0 = {}
                 /\ runs[r].ck0.seen_ids = <<>>
                 /\ runs[r].ck0.page_info = 0
                 /\ runs[r].ck0.collects_state = EmptyCollects
                 /\ runs[r].ck0.processed_count = 0
                 /\ runs[r].ck0.scope_hash = get_scope_hash(config)

\* a job given a token that decodes to a checkpoint of another scope ran to the
\* end and processed product 1, which the token holds as seen
C5_Witness ==
    \E r \in DOMAIN runs :
        LET config == jobs[runs[r].job].config
        IN  /\ config.resume_token \notin {NoToken, GarbageToken}
            /\ ~TokenMatches(config)
            /\ runs[r].first
            /\ runs[r].pc = "done"
            /\ jobs[runs[r].job].status = "completed"
            /\ 1 \in Range(runs[r].processed)

CountMutations(j, status, ok) ==
    Cardinality({i \in JobMutations(j) : mutations[i].status = status /\ mutations[i].ok = ok})

\* C6: each failed catalog mutation of a run adds exactly one to errors_count and
\* nothing to drafted_count or archived_count, the rows of that product record
\* action = error, and the run goes on: a run that ended without a failed catalog
\* read went through every product of its candidate set and ended COMPLETED
C6_MutationFailureContained ==
    /\ \A j \in DOMAIN jobs :
          /\ jobs[j].stats.errors_count =
                CountMutations(j, "draft", FALSE) + CountMutations(j, "archived", FALSE)
          /\ jobs[j].stats.drafted_count = CountMutations(j, "draft", TRUE)
          /\ jobs[j].stats.archived_count = CountMutations(j, "archived", TRUE)
          /\ \A i \in JobMutations(j) :
                /\ RowsOf(jobs[j], mutations[i].product_id) # {}
                /\ \A k \in RowsOf(jobs[j], mutations[i].product_id) :
                      jobs[j].results[k].action = "error" <=> ~mutations[i].ok
    /\ \A r \in DOMAIN runs :
          (Ended(r) /\ ~runs[r].raised)
          => /\ Last(runs[r].events).status = "completed"
             /\ \A i \in DOMAIN runs[r].products :
                   runs[r].products[i].id \in Range(runs[r].processed) \cup runs[r].seen0

\* a run whose catalog mutation failed for one product drafted a later one and
\* ended COMPLETED
C6_Witness ==
    \E r \in DOMAIN runs :
        LET job == jobs[runs[r].job]
        IN  /\ runs[r].pc = "done"
            /\ job.status = "completed"
            /\ job.stats.errors_count = 1
            /\ job.stats.drafted_count = 1
            /\ \E i, k \in RunMutations(r) : i < k /\ ~mutations[i].ok /\ mutations[k].ok

\* C7: a run that failed stored an error message in the job and ended with one
\* final event, of status failed, whose resume token is not null and decodes to
\* the checkpoint as it was when the failure happened
C7_FailedRunEmitsToken ==
    /\ \A r \in DOMAIN runs :
          runs[r].raised
          => /\ jobs[runs[r].job].error # "none"
             /\ runs[r].events # <<>>
             /\ Last(runs[r].events).type = "final"
             /\ Last(runs[r].events).status = "failed"
             /\ Last(runs[r].events).resume_token # NoToken
             /\ decode_resume_token(Last(runs[r].events).resume_token) = runs[r].ck_fail
             /\ \A i \in DOMAIN runs[r].events :
                   runs[r].events[i].type = "final" => i = Len(runs[r].events)
    /\ \A j \in DOMAIN jobs :
          jobs[j].status = "failed"
          => /\ jobs[j].error # "none"
             /\ \E r \in DOMAIN runs : runs[r].job = j /\ runs[r].raised

\* a by-collections run failed after it had kept the product IDs of a collection
C7_Witness ==
    \E r \in DOMAIN runs :
        /\ runs[r].raised
        /\ jobs[runs[r].job].status = "failed"
        /\ \E c \in DOMAIN runs[r].ck_fail.collects_state :
              runs[r].ck_fail.collects_state[c].product_ids # <<>>

\* C8: a catalog read of a run that failed for good (the status listing, the
\* collection membership, the hydration or the metadata field read of a product)
\* makes the run raise, so that the job is FAILED
C8_ReadFailureFailsJob ==
    \A r \in DOMAIN runs :
        runs[r].read_failed
        => /\ runs[r].raised
           /\ Ended(r) => Last(runs[r].events).status = "failed"

Retryable(response) ==
    response = TransportError \/ response = 429 \/ (500 <= response /\ response < 600)

ClientError(response) == 400 <= response /\ response < 500 /\ response # 429

\* C9: one call of _request sends at most max_retries + 1 HTTP attempts, every
\* retry of a 429, a 5xx or a transport error counted by the same counter; at
\* the ceiling it raises instead of retrying; when it returns, it returns the
\* first response that was a success, every attempt before having been retryable
C9_RetryCeiling ==
    /\ req.attempts <= max_retries + 1
    /\ req.pc # "idle" => req.retry_count = req.attempts - 1
    /\ req.pc \in {"sleeping", "returned", "raised"} => Len(req.responses) = req.attempts
    /\ \A i \in DOMAIN req.responses :
          i < Len(req.responses) => Retryable(req.responses[i])
    /\ req.pc = "sleeping" => req.attempts <= max_retries /\ Retryable(Last(req.responses))
    /\ req.pc = "returned" => Last(req.responses) = 200
    /\ req.pc = "raised"
       => \/ ClientError(Last(req.responses))
          \/ Retryable(Last(req.responses)) /\ req.attempts = max_retries + 1

\* a call raised at the ceiling after it had met a 429, a 5xx and a transport error
C9_Witness ==
    /\ req.pc = "raised"
    /\ req.attempts = max_retries + 1
    /\ {429, 503, TransportError} \subseteq Range(req.responses)
    /\ \A i \in DOMAIN req.responses : Retryable(req.responses[i])

\* C10: a response with a 4xx status other than 429 is the last attempt of its
\* call, which raises; a call whose first response is one made exactly one attempt
C10_ClientErrorPermanent ==
    \A i \in DOMAIN req.responses :
        ClientError(req.responses[i])
        => /\ req.pc = "raised"
           /\ i = Len(req.responses)
           /\ req.attempts = i

\* a call that met a 404 at its first attempt, with every retry still unused
C10_Witness ==
    /\ req.pc = "raised"
    /\ req.responses = <<404>>
    /\ req.attempts = 1
    /\ req.retry_count = 0

\* the indices of the rows of product p, from the first
FirstRow(job, p) == CHOOSE i \in RowsOf(job, p) : \A k \in RowsOf(job, p) : i <= k

\* C11: the product a run processed last has, when its metadata value is absent,
\* empty or without a URL, exactly one row, the synthetic one (no URL, not
\* broken, action no_urls), and otherwise exactly one row for each extracted URL,
\* next to each other in the order of the extracted list; all rows of a product
\* carry the same action
C11_RowsPerUrl ==
    /\ \A r \in DOMAIN runs :
          runs[r].processed # <<>>
          => LET job == jobs[runs[r].job]
                 p == Last(runs[r].processed)
                 urls == runs[r].last.urls
                 first == FirstRow(job, p)
             IN  /\ RowsOf(job, p) # {}
                 /\ IF ~runs[r].last.value \/ urls = <<>>
                    THEN /\ RowsOf(job, p) = {first}
                         /\ job.results[first].original_url = ""
                         /\ job.results[first].link_status = "no_url"
                         /\ ~job.results[first].is_broken
                         /\ job.results[first].action = "no_urls"
                    ELSE /\ RowsOf(job, p) = first..(first + Len(urls) - 1)
                         /\ \A k \in 1..Len(urls) :
                               job.results[first + k - 1].original_url = urls[k]
    /\ \A j \in DOMAIN jobs : \A i, k \in DOMAIN jobs[j].results :
          jobs[j].results[i].product_id = jobs[j].results[k].product_id
          => jobs[j].results[i].action = jobs[j].results[k].action

\* a job whose ledger holds the two rows of product 1 in the order u2, u1 and a
\* synthetic row of a product whose metadata value held text without a URL
C11_Witness ==
    \E r \in DOMAIN runs :
        LET job == jobs[runs[r].job]
        IN  /\ runs[r].last = [value |-> TRUE, urls |-> <<>>]
            /\ Cardinality(RowsOf(job, 1)) = 2
            /\ job.results[FirstRow(job, 1)].original_url = "u2"
            /\ Len(runs[r].processed) >= 2

\* C12: a run calls the catalog mutation for a product only when the product has
\* a broken URL, the status it was fetched with is neither draft nor archived,
\* dry_run is false and auto_action is true, and then with the status of the
\* configured action; with neither dry_run nor auto_action a job has no mutation
\* call, and the rows of a product with a broken link record no_action, or the
\* informational already_draft / already_archived of a product hidden already
C12_MutationOnlyWhenAutoAction ==
    /\ \A m \in DOMAIN mutations :
          mutations[m].run # 0
          => LET job == jobs[mutations[m].job]
                 rows == RowsOf(job, mutations[m].product_id)
             IN  /\ \E i \in rows : job.results[i].is_broken
                 /\ \A i \in rows : job.results[i].product_status \notin {"draft", "archived"}
                 /\ ~job.config.dry_run
                 /\ job.config.auto_action
                 /\ mutations[m].status =
                       (IF job.config.broken_action = "archive" THEN "archived" ELSE "draft")
                 /\ job.config.broken_action # "ignore"
    /\ \A j \in DOMAIN jobs :
          (~jobs[j].config.dry_run /\ ~jobs[j].config.auto_action)
          => /\ JobMutations(j) = {}
             /\ \A i \in DOMAIN jobs[j].results :
                   HasBrokenLinks(jobs[j], i)
                   => jobs[j].results[i].action =
                         (IF jobs[j].results[i].product_status = "draft" THEN "already_draft"
                          ELSE IF jobs[j].results[i].product_status = "archived"
                          THEN "already_archived"
                          ELSE "no_action")

\* a job without dry_run and auto_action recorded no_action for an active product
\* with a broken link, and finished
C12_Witness ==
    \E j \in DOMAIN jobs :
        /\ ~jobs[j].config.dry_run
        /\ ~jobs[j].config.auto_action
        /\ jobs[j].status = "completed"
        /\ \E i \in DOMAIN jobs[j].results :
              /\ jobs[j].results[i].is_broken
              /\ jobs[j].results[i].product_status = "active"
              /\ jobs[j].results[i].action = "no_action"

\* the hidden status the configured broken-link action aims at
TargetStatus(config) ==
    IF config.broken_action = "archive" THEN "archived"
    ELSE IF config.broken_action = "draft" THEN "draft"
    ELSE "none"

\* C13: the rows of a product with a broken link that was fetched in the hidden
\* status the configured action aims at record already_draft / already_archived,
\* and no catalog mutation is called for it, with auto_action or without
C13_AlreadyHidden ==
    \A j \in DOMAIN jobs : \A i \in DOMAIN jobs[j].results :
        (HasBrokenLinks(jobs[j], i)
            /\ jobs[j].results[i].product_status = TargetStatus(jobs[j].config))
        => /\ jobs[j].results[i].action =
                 (IF jobs[j].results[i].product_status = "draft"
                  THEN "already_draft" ELSE "already_archived")
           /\ \A m \in JobMutations(j) :
                 mutations[m].product_id # jobs[j].results[i].product_id

\* an auto-archive job met an archived product with a broken link and archived
\* another one
C13_Witness ==
    \E j \in DOMAIN jobs :
        /\ jobs[j].config.auto_action
        /\ ~jobs[j].config.dry_run
        /\ jobs[j].config.broken_action = "archive"
        /\ JobMutations(j) # {}
        /\ \E i \in DOMAIN jobs[j].results :
              /\ jobs[j].results[i].is_broken
              /\ jobs[j].results[i].action = "already_archived"

\* the progress events of run r
ProgressEvents(r) == {i \in DOMAIN runs[r].events : runs[r].events[i].type = "progress"}

\* the rows of the progress events e[1..n], one after the other
RECURSIVE EventRows(_, _)
EventRows(e, n) ==
    IF n = 0 THEN <<>>
    ELSE EventRows(e, n - 1) \o (IF e[n].type = "progress" THEN e[n].results ELSE <<>>)

\* the rows of the events of run r so far, with the rows of its batch under way
RowsAdded(r) == EventRows(runs[r].events, Len(runs[r].events)) \o runs[r].batch_results

RECURSIVE RowsBefore(_, _)
\* how many rows the first n runs added to the ledger of job j
RowsBefore(j, n) ==
    IF n = 0 THEN 0
    ELSE RowsBefore(j, n - 1) + (IF runs[n].job = j THEN Len(RowsAdded(n)) ELSE 0)

\* C14: the i-th event of a run is the progress event of batch i, with batch_index
\* i of the run's total_batches, and carries rows of products of batch i only; the
\* rows of the events, in order, with the rows of the batch under way, are the
\* rows the run has added to the ledger, after those of the runs before it; a
\* run that has ended, completed or failed, ended with exactly one final event,
\* which carries the resume token, and a completed one after the events of all
\* its batches
C14_OneEventPerBatch ==
    \A r \in DOMAIN runs :
        LET run == runs[r]
            job == jobs[run.job]
            batches == chunk_list(run.products, job.config.batch_size)
            n == Cardinality(ProgressEvents(r))
        IN  /\ ProgressEvents(r) = 1..n
            /\ n <= Len(batches)
            /\ \A i \in 1..n :
                  /\ run.events[i].stats.batch_index = i
                  /\ run.events[i].stats.total_batches = Len(batches)
                  /\ \A k \in DOMAIN run.events[i].results :
                        \E m \in DOMAIN batches[i] :
                           batches[i][m].id = run.events[i].results[k].product_id
            /\ RowsBefore(run.job, r) <= Len(job.results)
            /\ RowsAdded(r) = SubSeq(job.results, RowsBefore(run.job, r - 1) + 1,
                                     RowsBefore(run.job, r))
            /\ r = Len(runs) => RowsBefore(run.job, r) = Len(job.results)
            /\ Len(run.events) <= n + 1
            /\ Ended(r) <=> (Len(run.events) = n + 1)
            /\ Ended(r)
               => /\ Last(run.events).type = "final"
                  /\ Last(run.events).resume_token # NoToken
                  /\ r = Len(runs) => Last(run.events).resume_token = get_resume_token(job)
                  /\ ~run.raised => n = Len(batches)

\* a completed run of four batches of one product whose third batch held only
\* the product listed twice and so carried no row
C14_Witness ==
    \E r \in DOMAIN runs :
        /\ runs[r].pc = "done"
        /\ ~runs[r].raised
        /\ Len(runs[r].events) = 5
        /\ runs[r].events[3].results = <<>>
        /\ runs[r].events[4].results # <<>>
        /\ runs[r].events[5].type = "final"

\* C15: when a run has yielded the progress event of a batch, the checkpoint
\* holds in seen_ids every product the run has processed and its processed_count
\* equals stats.processed
C15_CheckpointUpToDate ==
    \A r \in DOMAIN runs :
        runs[r].pc = "yielded"
        => LET job == jobs[runs[r].job]
           IN  /\ Range(runs[r].processed) \subseteq Range(job.checkpoint.seen_ids)
               /\ job.checkpoint.processed_count = job.stats.processed

\* C16: no operation on a job lowers one of its JobStats counters
C16_CountersNeverDecrease ==
    [][\A j \in DOMAIN jobs : \A c \in DOMAIN jobs[j].stats :
          jobs'[j].stats[c] >= jobs[j].stats[c]]_vars

\* the check_url calls between their first GET and their return
InNetworkSection == {i \in DOMAIN lc.tasks : lc.tasks[i].pc = "get"}

\* C17: however many URLs one check_urls call is given, the check_url calls of
\* the checker that are between their first GET and their return never number
\* more than the concurrency it was built with
C17_ConcurrencyBound == Cardinality(InNetworkSection) <= lc.concurrency

\* more URLs than permits: the section is full and a call waits outside it
C17_Witness ==
    /\ Len(lc.urls) > lc.concurrency
    /\ Cardinality(InNetworkSection) = lc.concurrency
    /\ \E i \in DOMAIN lc.tasks : lc.tasks[i].pc = "waiting"
    /\ \E i \in DOMAIN lc.tasks : lc.tasks[i].pc = "done"

\* C18: check_urls returns a list as long as the list it was given, whose i-th
\* entry is what the check of the i-th URL produced, in whatever order the
\* checks finished
C18_ResultsInInputOrder ==
    lc.pc = "returned" =>
        /\ Len(lc.returned) = Len(lc.urls)
        /\ \A i \in DOMAIN lc.urls :
              /\ lc.returned[i].original_url = lc.urls[i]
              /\ lc.returned[i] = lc.tasks[i].result

\* a list of different URLs whose checks finished last to first with
\* different outcomes
C18_Witness ==
    /\ lc.pc = "returned"
    /\ Len(lc.urls) >= 2
    /\ lc.urls[1] # lc.urls[2]
    /\ lc.finished[1] = Len(lc.urls)
    /\ lc.returned[1].link_status # lc.returned[2].link_status

\* what made a GET fail, as the surroundings know it
FailureCauses == {"timeout", "dns", "tls", "transport"}

\* C19: no exception leaves check_url or check_urls; a call whose GET failed,
\* whatever was raised, returns a result, and that result is broken
C19_FailuresAreBrokenResults ==
    /\ lc.pc # "raised"
    /\ \A i \in DOMAIN lc.tasks :
          /\ lc.tasks[i].pc # "raised"
          /\ lc.tasks[i].cause \in FailureCauses =>
                /\ lc.tasks[i].pc = "done"
                /\ lc.tasks[i].result.is_broken
                /\ lc.tasks[i].result.original_url = lc.urls[i]

\* an exception no specific clause names, after a redirect was followed, has
\* come back from check_urls as a broken result
C19_Witness ==
    /\ lc.pc = "returned"
    /\ lc.tasks[1].cause = "transport"
    /\ lc.returned[1].error = "Error"
    /\ lc.returned[1].redirect_count > 0
    /\ lc.returned[1].is_broken

\* the row of the table for a code that is not a redirect
TableStatus(status_code, hops) ==
    IF 200 <= status_code /\ status_code < 300
    THEN IF hops > 0 THEN "redirected_ok" ELSE "ok"
    ELSE IF status_code = 404 THEN "broken_not_found"
    ELSE IF 400 <= status_code /\ status_code < 500 THEN "broken_client_error"
    ELSE IF 500 <= status_code /\ status_code < 600 THEN "broken_server_error"
    ELSE "broken_other"

\* the row of the table for a GET that failed
TableFailure(cause) ==
    IF cause = "timeout" THEN "broken_timeout"
    ELSE IF cause = "dns" THEN "broken_dns"
    ELSE IF cause = "tls" THEN "broken_ssl"
    ELSE "broken_other"

\* C20: the result of a check that ended on a response other than a redirect
\* carries the status of the table for its code (2xx: ok, or redirected_ok
\* after a hop, not broken; 404, other 4xx, 5xx and any other code: broken) and
\* the code itself; the result of a check that ended on a failed GET is broken
\* with the status of the failure's kind (timeout, dns, ssl for TLS, other)
\* and no code
C20_ClassificationTable ==
    \A i \in DOMAIN lc.tasks :
        LET task == lc.tasks[i]
            result == task.result
        IN  task.pc = "done" =>
                IF task.cause \in FailureCauses
                THEN /\ result.is_broken
                     /\ result.link_status = TableFailure(task.cause)
                     /\ result.http_status = NoStatus
                ELSE ~(300 <= task.status_code /\ task.status_code < 400) =>
                     /\ result.link_status = TableStatus(task.status_code, result.redirect_count)
                     /\ result.is_broken = (result.link_status \in BrokenStatuses)
                     /\ result.http_status = task.status_code

IsRedirect(status_code) == 300 <= status_code /\ status_code < 400

\* C21: with redirect following on, a check that followed N redirects, N at least
\* 1 and at most max_redirects, and then met a 2xx response returns
\* redirected_ok, not broken, with redirect_count N and the last URL requested
\* as final_url; a check that met more redirects than max_redirects returns
\* broken with status too-many-redirects
C21_RedirectChain ==
    \A i \in DOMAIN lc.tasks :
        LET task == lc.tasks[i]
            result == task.result
            n == Len(task.requested) - 1
        IN  (lc.follow_redirects /\ task.pc = "done" /\ task.cause = "response") =>
                /\ (n >= 1 /\ 200 <= task.status_code /\ task.status_code < 300) =>
                      /\ n <= lc.max_redirects
                      /\ result.link_status = "redirected_ok"
                      /\ ~result.is_broken
                      /\ result.redirect_count = n
                      /\ result.final_url = Last(task.requested)
                /\ (IsRedirect(task.status_code) /\ n + 1 > lc.max_redirects) =>
                      /\ result.is_broken
                      /\ result.link_status = "broken_too_many_redirects"

\* C22: with redirect following off, a check whose first response is a 3xx
\* returns at once: redirected_ok, not broken, final_url the Location header as
\* received, redirect_count 0, and the URL was requested once
C22_NoFollow ==
    \A i \in DOMAIN lc.tasks :
        LET task == lc.tasks[i]
            result == task.result
        IN  (~lc.follow_redirects /\ task.cause = "response"
                /\ IsRedirect(task.status_code)) =>
                /\ task.pc = "done"
                /\ task.requested = <<task.original_url>>
                /\ result.link_status = "redirected_ok"
                /\ ~result.is_broken
                /\ result.final_url = task.location
                /\ result.redirect_count = 0
                /\ result.http_status = task.status_code

\* a 301 to a path, returned by check_urls with the path as final_url
C22_Witness ==
    /\ ~lc.follow_redirects
    /\ lc.pc = "returned"
    /\ lc.tasks[1].status_code = 301
    /\ lc.tasks[1].location = Url("", "/w")
    /\ lc.returned[1].final_url = Url("", "/w")
    /\ lc.returned[1].link_status = "redirected_ok"

\* C23: while a run_job of a job is under way, a step that changes the job's
\* stats or checkpoint is a step of that run_job, whatever else is called for
\* the job meanwhile; so the checkpoint never lists a product twice and
\* processed never exceeds the number of products seen
C23_SingleWriter ==
    [][\A j \in DOMAIN jobs :
          /\ (jobs'[j].stats # jobs[j].stats \/ jobs'[j].checkpoint # jobs[j].checkpoint)
                => \A r \in DOMAIN runs :
                      (runs[r].job = j /\ Active(r)) => runs'[r] # runs[r]
          /\ jobs'[j].checkpoint # NoCheckpoint
                => /\ NoDuplicates(jobs'[j].checkpoint.seen_ids)
                   /\ jobs'[j].stats.processed
                         <= Cardinality(Range(jobs'[j].checkpoint.seen_ids))]_vars

\* the job of run r2 resumes the failed by-collections run r1 with the token r1
\* emitted
ResumesFailedCollections(r1, r2) ==
    LET j1 == runs[r1].job
        j2 == runs[r2].job
    IN  /\ j1 # j2
        /\ runs[r1].raised
        /\ runs[r2].first
        /\ jobs[j1].config.collection_ids # <<>>
        /\ get_scope_hash(jobs[j2].config) = get_scope_hash(jobs[j1].config)
        /\ jobs[j2].config.resume_token = Last(runs[r1].events).resume_token

\* the products of the configured collections that pass the status filter
MembersToCheck(config) ==
    {p \in UNION {Range(CollectsList[c]) : c \in Range(config.collection_ids)} :
        config.status = "any" \/ catStatus[p] = config.status}

\* C24: when a by-collections run failed and a job of the same scope was run to
\* completion with the token it emitted, the product IDs the checkpoint held
\* for each collection are, seen IDs apart, among the IDs the resumed run
\* gathered, and every member of a configured collection that passes the status
\* filter has a ledger row in one of the two jobs
C24_CollectionsResume ==
    \A r1, r2 \in DOMAIN runs :
        (ResumesFailedCollections(r1, r2) /\ Ended(r2) /\ ~runs[r2].raised)
        => LET ck == runs[r2].ck0
           IN  /\ \A c \in DOMAIN ck.collects_state :
                     Range(ck.collects_state[c].product_ids) \ runs[r2].seen0
                        \subseteq runs[r2].all_product_ids
               /\ \A p \in MembersToCheck(jobs[runs[r1].job].config) :
                     \/ RowsOf(jobs[runs[r1].job], p) # {}
                     \/ RowsOf(jobs[runs[r2].job], p) # {}

\* the by-collections calls FetchSpec has made, with what the claims compare
IsFetchCall == fn.op = "fetch_products_by_collections"

Members(collection_ids) == UNION {Range(CollectsList[c]) : c \in Range(collection_ids)}

FreshCursors == \A c \in Range(fn.collection_ids) : fn.cursors[c] = 0

\* what C25 says of one call apart from which IDs are the candidates: each
\* requested ID is in exactly one request of at most the limit, and the products
\* returned are the requested ones with the configured status, each once
HydratedOnce ==
    LET requested == Flatten(fn.result.requests)
        kept == [i \in DOMAIN fn.result.products |-> fn.result.products[i].id]
    IN  /\ NoDuplicates(requested)
        /\ \A k \in DOMAIN fn.result.requests : Len(fn.result.requests[k]) <= fn.size
        /\ NoDuplicates(kept)
        /\ Range(kept) =
              {p \in Range(requested) : fn.status = "any" \/ catStatus[p] = fn.status}
        /\ \A i \in DOMAIN fn.result.products :
              fn.result.products[i].status = catStatus[fn.result.products[i].id]

C26_FirstLimitIds ==
    fn.op = "get_products_by_ids" =>
        IF fn.product_ids = <<>>
        THEN fn.requests = <<>> /\ fn.result = <<>>
        ELSE /\ Len(fn.requests) = 1
             /\ fn.requests[1] = SubSeq(fn.product_ids, 1, Min(fn.limit, Len(fn.product_ids)))
             /\ \A i \in DOMAIN fn.result : fn.result[i].id \in Range(fn.requests[1])

\* three IDs under a limit of two: the third is not requested
C26_Witness ==
    /\ fn.op = "get_products_by_ids"
    /\ fn.product_ids = <<3, 1, 2>>
    /\ fn.limit = 2
    /\ fn.requests = <<(<<3, 1>>)>>
    /\ Len(fn.result) = 2

\* ActionType recorded for a ProductAction
ActionTaken(action) ==
    CASE action = "draft" -> "drafted"
      [] action = "archive" -> "archived"
      [] action = "ignore" -> "ignored"

\* C27: update_product_action on a job that is not a dry run leaves the
\* checkpoint and the number of rows as they were; when its catalog call fails
\* it returns success false with every row and every counter as before;
\* otherwise it succeeds, the rows of the requested product differ from before
\* in their action only, which is the one taken, and every other row is as before
C27_ManualActionScope ==
    [][Len(manual') > Len(manual) =>
          LET m == manual'[Len(manual')]
              before == jobs[m.job]
              after == jobs'[m.job]
              failed == \E i \in DOMAIN mutations' \ DOMAIN mutations : ~mutations'[i].ok
          IN  ~before.config.dry_run =>
                 /\ after.checkpoint = before.checkpoint
                 /\ Len(after.results) = Len(before.results)
                 /\ failed =>
                       /\ ~m.success
                       /\ after.results = before.results
                       /\ after.stats = before.stats
                 /\ ~failed =>
                       /\ m.success
                       /\ \A i \in DOMAIN before.results :
                             after.results[i] =
                                IF before.results[i].product_id = m.product_id
                                THEN [before.results[i] EXCEPT
                                         !.action = ActionTaken(m.action)]
                                ELSE before.results[i]]_vars

\* a manual action has succeeded on a job that is not a dry run and whose
\* ledger also holds a row of another product, with another action
C27_Witness ==
    \E k \in DOMAIN manual :
        LET m == manual[k]
            job == jobs[m.job]
        IN  /\ m.success
            /\ ~job.config.dry_run
            /\ job.checkpoint # NoCheckpoint
            /\ \E i, n \in DOMAIN job.results :
                  /\ job.results[i].product_id = m.product_id
                  /\ job.results[i].action = ActionTaken(m.action)
                  /\ job.results[n].product_id # m.product_id
                  /\ job.results[n].action # ActionTaken(m.action)

IsPermutation(s, t) ==
    /\ Len(s) = Len(t)
    /\ \E f \in [DOMAIN s -> DOMAIN t] :
          /\ \A i, k \in DOMAIN s : i # k => f[i] # f[k]
          /\ \A i \in DOMAIN s : t[f[i]] = s[i]

\* the second job was created with the token of the first
ResumedPair ==
    /\ Len(jobs) = 2
    /\ jobs[2].config.resume_token = get_resume_token(jobs[1])
    /\ jobs[2].config.resume_token.kind = "b64"

SameMetafieldScope(c1, c2) ==
    /\ c1.shop = c2.shop
    /\ c1.status = c2.status
    /\ c1.namespace = c2.namespace
    /\ c1.key = c2.key

\* C29: two configurations alike in shop, status, namespace and key whose
\* collection-ID lists are permutations of each other have the same scope hash,
\* and a job created under one with the token of a job under the other starts
\* from the checkpoint of the token
C29_OrderInsensitiveScope ==
    ResumedPair =>
        LET c1 == jobs[1].config
            c2 == jobs[2].config
        IN  (SameMetafieldScope(c1, c2) /\ IsPermutation(c1.collection_ids, c2.collection_ids))
                => /\ get_scope_hash(c1) = get_scope_hash(c2)
                   /\ jobs[2].checkpoint = decode_resume_token(c2.resume_token)
                   /\ jobs[2].checkpoint = jobs[1].checkpoint

\* the token of a job over collections 10, 20 restored into one over 20, 10
C29_Witness ==
    /\ ResumedPair
    /\ SameMetafieldScope(jobs[1].config, jobs[2].config)
    /\ jobs[1].config.collection_ids = <<10, 20>>
    /\ jobs[2].config.collection_ids = <<20, 10>>
    /\ jobs[2].checkpoint # NoCheckpoint

\* C30: two configurations that differ in shop, status, namespace or key have
\* different scope hashes, and a job created under one with the token of a job
\* under the other starts without a checkpoint
C30_ScopeSeparation ==
    ResumedPair =>
        LET c1 == jobs[1].config
            c2 == jobs[2].config
        IN  ~SameMetafieldScope(c1, c2)
                => /\ get_scope_hash(c1) # get_scope_hash(c2)
                   /\ jobs[2].checkpoint = NoCheckpoint

\* a token of the metafield custom.video_url offered to a job of the same shop,
\* status and collections over the metafield video_url.custom
C30_Witness ==
    /\ ResumedPair
    /\ jobs[1].config.namespace = jobs[2].config.key
    /\ jobs[1].config.key = jobs[2].config.namespace
    /\ jobs[1].config.namespace # jobs[1].config.key
    /\ jobs[1].config.shop = jobs[2].config.shop
    /\ jobs[1].config.status = jobs[2].config.status
    /\ jobs[1].config.collection_ids = jobs[2].config.collection_ids
    /\ jobs[2].checkpoint = NoCheckpoint

\* C31: a JobConfig construction that raised had a batch_size outside 1..250 or
\* a concurrency outside 1..100, and every job of the manager, run or not, has
\* both inside their ranges
C31_ConfigInBounds ==
    /\ fn.op = "JobConfig" =>
          \/ fn.batch_size \notin 1..BatchSizeMax
          \/ fn.concurrency \notin 1..ConcurrencyMax
    /\ \A j \in DOMAIN jobs :
          /\ jobs[j].config.batch_size \in 1..BatchSizeMax
          /\ jobs[j].config.concurrency \in 1..ConcurrencyMax

\* a batch size of 251 was rejected, and a job of batch size 250 and
\* concurrency 100 has completed
C31_Witness ==
    /\ fn.op = "JobConfig"
    /\ fn.batch_size = BatchSizeMax + 1
    /\ fn.concurrency = 1
    /\ Len(jobs) = 1
    /\ jobs[1].config.batch_size = BatchSizeMax
    /\ jobs[1].config.concurrency = ConcurrencyMax
    /\ jobs[1].status = "completed"

\* the links of a decoded text: in each longest stretch without a character
\* that ends a link, what begins at the first scheme prefix and is longer than
\* the prefix alone
LinksOf(chars) ==
    {SubSeq(chars, i, b) : <<i, b>> \in
        {<<i, b>> \in (DOMAIN chars) \X (DOMAIN chars) :
            /\ i < b
            /\ chars[i] = Scheme
            /\ \A k \in (i + 1)..b : chars[k] \notin Stops
            /\ b = Len(chars) \/ chars[b + 1] \in Stops
            /\ \A a \in 1..(i - 1) :
                  (\A k \in a..(i - 1) : chars[k] \notin Stops) => chars[a] # Scheme}}

\* a link without its trailing punctuation: its longest prefix that does not
\* end with a punctuation character
WithoutTrailing(url) ==
    LET ends == {n \in 0..Len(url) : n = 0 \/ url[n] \notin Punctuation}
    IN  SubSeq(url, 1, CHOOSE n \in ends : \A m \in ends : m <= n)

\* C32: the list extract_urls returns holds no URL twice, and its URLs are the
\* links of the entity-decoded text, each without its trailing punctuation;
\* it is empty for text None, for the empty text and for a text without a link
C32_ExtractedLinks ==
    fn.op = "extract_urls" =>
        /\ NoDuplicates(fn.result)
        /\ Range(fn.result) =
              IF fn.text.is_none THEN {}
              ELSE {WithoutTrailing(url) : url \in LinksOf(unescape(fn.text.chars))}
        /\ (fn.text.is_none \/ \A i \in DOMAIN fn.text.chars : fn.text.chars[i] # Scheme)
              => fn.result = <<>>

\* two links that differ in their trailing punctuation only are returned as one
C32_Witness ==
    /\ fn.op = "extract_urls"
    /\ fn.text.chars = <<Scheme, "a", ".", " ", Scheme, "a">>
    /\ fn.result = <<(<<Scheme, "a">>)>>

\* C33: a check_url call never has more than max_redirects + 1 GET requests
\* behind it, whatever the responses redirect to, and none at all beyond the
\* first when redirects are not followed; a call that has returned without a
\* failure of the GET itself and without following made exactly one
C33_BoundedRequests ==
    \A i \in DOMAIN lc.tasks :
        LET task == lc.tasks[i]
        IN  /\ Len(task.requested) <= lc.max_redirects + 1
            /\ ~lc.follow_redirects => Len(task.requested) <= 1
            /\ (task.pc = "done" /\ ~lc.follow_redirects) => Len(task.requested) = 1

\* a cycle: the URL redirects to a second URL, which redirects back; the call
\* asked for the first URL again, was redirected once more and returned broken
C33_Witness ==
    \E i \in DOMAIN lc.tasks :
        LET task == lc.tasks[i]
        IN  /\ lc.follow_redirects
            /\ task.pc = "done"
            /\ Len(task.requested) = lc.max_redirects + 1
            /\ Len(task.requested) >= 3
            /\ task.requested[1] = task.requested[3]
            /\ task.requested[1] # task.requested[2]
            /\ task.status_code \in RedirectCodes
            /\ task.result.is_broken

\* C34: a run never has more products behind it than the batches it has
\* yielded and the one it was asked to go on with; while it waits at a progress
\* event, or was closed there, the products behind it are those of the batches
\* yielded, and a product listed only further on has not been processed by it,
\* has no call of it to the catalog and, unless the token brought it or an
\* earlier run of the job saw it, is not in the checkpoint's seen_ids
C34_LazyBatches ==
    \A r \in DOMAIN runs :
        LET run == runs[r]
            job == jobs[run.job]
            delivered == Cardinality(ProgressEvents(r)) * job.config.batch_size
            behind == {run.products[i].id : i \in 1..(run.pos - 1)}
            ahead == {run.products[i].id : i \in run.pos..Len(run.products)} \ behind
        IN  /\ run.pos - 1 <= delivered + job.config.batch_size
            /\ run.pc \in {"yielded", "closed"} =>
                  /\ run.pos - 1 <= delivered
                  /\ \A p \in ahead :
                        /\ p \notin Range(run.processed)
                        /\ \A i \in RunMutations(r) : mutations[i].product_id # p
                        /\ r = Len(runs) =>
                              (p \in Range(job.checkpoint.seen_ids) => p \in run.seen0)

\* the consumer stopped after the first of two batches: products 1 and 2 are
\* processed and seen, product 3 of the second batch is neither
C34_Witness ==
    \E r \in DOMAIN runs :
        /\ runs[r].pc = "closed"
        /\ jobs[runs[r].job].config.batch_size = 2
        /\ runs[r].processed = <<1, 2>>
        /\ Len(runs[r].products) > 2
        /\ jobs[runs[r].job].checkpoint.seen_ids = <<1, 2>>
        /\ RowsOf(jobs[runs[r].job], 3) = {}

\* the tokens of the final events of runs that ended COMPLETED
CompletedTokens ==
    UNION {{runs[r].events[i].resume_token :
                i \in {k \in DOMAIN runs[r].events :
                          /\ runs[r].events[k].type = "final"
                          /\ runs[r].events[k].status = "completed"}} :
           r \in DOMAIN runs}

\* at the events of the latest run of a job, checkpoint.seen_ids holds no ID
\* twice and is the seen_ids the run started from followed by the products it
\* has processed
SeenIdsExact ==
    \A r \in DOMAIN runs :
        LET run == runs[r]
            job == jobs[run.job]
        IN  (/\ run.pc \in {"yielded", "final", "done"}
             /\ \A r2 \in DOMAIN runs : runs[r2].job = run.job => r2 <= r)
                => /\ NoDuplicates(job.checkpoint.seen_ids)
                   /\ job.checkpoint.seen_ids = run.ck0.seen_ids \o run.processed

\* C35 as stated: at every progress event and at the final event
\* checkpoint.seen_ids holds no ID twice and is the restored seen_ids followed by
\* the products processed so far in the run, and a job created with the token
\* of a COMPLETED run, the catalog being as it was, processes no product
C35_SeenIdsAndReplay ==
    /\ SeenIdsExact
    /\ \A r \in DOMAIN runs :
          (/\ jobs[runs[r].job].config.resume_token \in CompletedTokens
           /\ runs[r].first)
              => runs[r].processed = <<>>

\* the next cursor of the page a pagination step of run r has just read, as the
\* step stored it in the checkpoint
StoredCursor(r) ==
    LET job == jobs'[runs[r].job]
    IN  IF runs[r].pc = "fetch" THEN job.checkpoint.page_info
        ELSE job.checkpoint.collects_state[
                 job.config.collection_ids[runs[r].cidx]].page_info

\* a pagination loop of run r goes round again exactly when the page it read
\* has a next cursor: a step whose read returned stays in the loop with a cursor
\* stored and leaves it, for the next collection or for good, with none
LoopsStopAtNullCursor ==
    \A r \in DOMAIN runs :
        (runs[r].pc \in {"fetch", "collects"} /\ runs'[r] # runs[r] /\ ~runs'[r].raised) =>
            LET stays == runs'[r].pc = runs[r].pc /\ runs'[r].cidx = runs[r].cidx
            IN  stays <=> StoredCursor(r) # 0

\* C36: every run that is started comes to its end, with the job COMPLETED or
\* FAILED in its final event, which is its last; and its pagination loops stop
\* exactly when a page comes without a next cursor, or a read fails
C36_RunTerminates ==
    /\ [][LoopsStopAtNullCursor]_vars
    /\ \A r \in 1..MaxRuns :
          (r \in DOMAIN runs) ~>
             (/\ r \in DOMAIN runs
              /\ runs[r].pc = "done"
              /\ Last(runs[r].events).type = "final"
              /\ Last(runs[r].events).status \in {"completed", "failed"})

\* a run over a listing of two pages has ended, the job COMPLETED
C36_Witness ==
    \E r \in DOMAIN runs :
        /\ runs[r].pc = "done"
        /\ Last(runs[r].events).status = "completed"
        /\ jobs[runs[r].job].config.batch_size = 2
        /\ jobs[runs[r].job].config.collection_ids = <<>>
        /\ Len(runs[r].events) = 3

\* C37 as stated: in the final event of a run that ended COMPLETED,
\* stats.processed equals stats.total_products, and the progress events of the
\* run number stats.total_batches, which is total_products / batch_size
\* rounded up
C37_CompletedCounts ==
    \A r \in DOMAIN runs :
        (Ended(r) /\ Last(runs[r].events).status = "completed") =>
            LET stats == Last(runs[r].events).stats
                batch_size == jobs[runs[r].job].config.batch_size
            IN  /\ stats.processed = stats.total_products
                /\ Cardinality(ProgressEvents(r)) = stats.total_batches
                /\ stats.total_batches * batch_size >= stats.total_products
                /\ \/ (stats.total_batches - 1) * batch_size < stats.total_products
                   \/ (stats.total_products = 0 /\ stats.total_batches = 0)

\* the same for the first run of a job whose candidate list holds no product twice
CompletedCountsOfFirstRun ==
    \A r \in DOMAIN runs :
        (/\ Ended(r)
         /\ Last(runs[r].events).status = "completed"
         /\ runs[r].first
         /\ NoDuplicates([i \in DOMAIN runs[r].products |-> runs[r].products[i].id])) =>
            LET stats == Last(runs[r].events).stats
            IN  /\ stats.processed = stats.total_products
                /\ Cardinality(ProgressEvents(r)) = stats.total_batches

\* C38: the semaphore of a checker holds, at every moment, one permit for each
\* unit of its concurrency that no check_url call inside the block is using;
\* every check_url call that waits for a permit gets into the block; and every
\* check_urls call returns, with every permit back in the semaphore
C38_PermitsReturned ==
    /\ [](lc.permits + Cardinality(InNetworkSection) = lc.concurrency)
    /\ \A i \in 1..MaxUrls :
          (i \in DOMAIN lc.tasks /\ lc.tasks[i].pc = "waiting")
              ~> (i \in DOMAIN lc.tasks /\ lc.tasks[i].pc = "done")
    /\ (lc.pc = "gathering") ~> (lc.pc = "returned" /\ lc.permits = lc.concurrency)

\* more URLs than permits; the calls left the block by a final answer, by a
\* redirect that was refused and by an exception, and check_urls has returned
C38_Witness ==
    /\ lc.pc = "returned"
    /\ Len(lc.urls) > lc.concurrency
    /\ lc.permits = lc.concurrency
    /\ \E i \in DOMAIN lc.tasks : lc.tasks[i].result.link_status = "ok"
    /\ \E i \in DOMAIN lc.tasks :
          lc.tasks[i].status_code = 301 /\ lc.tasks[i].result.is_broken
    /\ \E i \in DOMAIN lc.tasks : lc.tasks[i].cause = "transport"

\* the results of the check_url calls that have returned
ProducedResults == {lc.tasks[i].result : i \in {j \in DOMAIN lc.tasks : lc.tasks[j].pc = "done"}}

\* C39: in every result check_url returns, is_broken is true exactly when
\* link_status is a broken kind; a result of status ok has redirect_count 0 and
\* was_redirected False; a result of status redirected_ok has was_redirected
\* True; and error is None exactly when the result is not broken
C39_ResultConsistent ==
    \A result \in ProducedResults :
        /\ result.is_broken <=> result.link_status \in BrokenStatuses
        /\ result.link_status = "ok" =>
              result.redirect_count = 0 /\ result.was_redirected = "False"
        /\ result.link_status = "redirected_ok" => result.was_redirected = "True"
        /\ result.error = NoError <=> ~result.is_broken

\* the same with was_redirected read as a condition: not true in an ok result
ResultConsistentAsCondition ==
    \A result \in ProducedResults :
        /\ result.is_broken <=> result.link_status \in BrokenStatuses
        /\ result.link_status = "ok" =>
              result.redirect_count = 0 /\ ~truthy(result.was_redirected)
        /\ result.link_status = "redirected_ok" => truthy(result.was_redirected)
        /\ result.error = NoError <=> ~result.is_broken

\* C40: the processed_count of a job's checkpoint is, in every state of a run
\* and in the token of its final event, at least the processed_count of the
\* checkpoint the run started from
C40_ProcessedCountKept ==
    \A r \in DOMAIN runs :
        /\ jobs[runs[r].job].checkpoint.processed_count >= runs[r].ck0.processed_count
        /\ \A i \in DOMAIN runs[r].events :
              runs[r].events[i].type = "final" =>
                  decode_resume_token(runs[r].events[i].resume_token).processed_count
                      >= runs[r].ck0.processed_count

\* the same for the runs of a job that was created without a token
ProcessedCountKeptFromZero ==
    \A r \in DOMAIN runs :
        jobs[runs[r].job].config.resume_token = NoToken =>
            /\ jobs[runs[r].job].checkpoint.processed_count >= runs[r].ck0.processed_count
            /\ \A i \in DOMAIN runs[r].events :
                  runs[r].events[i].type = "final" =>
                      decode_resume_token(runs[r].events[i].resume_token).processed_count
                          >= runs[r].ck0.processed_count

====
